---- MODULE Spec2Model ----
(***************************************************************************)
(* A model of rash: the n-dimensional array TensorMeta                     *)
(* (src/rash/tensorMeta.hpp) and the autograd wrapper Tensor               *)
(* (src/rash/tensor.hpp).                                                  *)
(*                                                                         *)
(* Doubles are modelled by integers (every value the model computes is a   *)
(* small integer, which a double represents exactly).  Flat buffers and    *)
(* shapes are sequences; the code's 0-based positions are kept and turned  *)
(* into 1-based sequence positions only at the point of access.            *)
(***************************************************************************)
EXTENDS Integers, Sequences, FiniteSets, TLC

(***************************************************************************)
(* Bounds of the model.                                                    *)
(***************************************************************************)
MaxRank == 2        \* longest shape of an input array
MaxDim == 3         \* largest size of one axis of an input array
MaxNumel == 6       \* most elements of an input array
MaxSteps == 1       \* operations applied in a row to one array
MaxNodes == 4       \* tensors alive at once
MaxNodesND == 3     \* tensors alive at once when they are not all scalars
MaxBackwardND == 1  \* calls of backward() when they are not all scalars
MaxSetters == 1     \* calls of updateData, updaetGrad and zeroGrad
MaxBackward == 2    \* calls of backward() in one run
MaxRankMat == 3     \* longest shape of an operand of a matrix product
MaxDimMat == 3      \* largest size of one axis of such an operand
MaxNumelMat == 8    \* most elements of such an operand
MaxHandleCalls == 2 \* calls made through the two copies of a tensor

(***************************************************************************)
(* Values the model draws for what the code reads without having written  *)
(* it: a word past the end of a vector, an uninitialised int.  0 makes the *)
(* division in reduceSingle trap.                                          *)
(***************************************************************************)
Garbage == {0, 1, 97}

\* ------------------------------------------------------------------------
\* Helpers on sequences
\* ------------------------------------------------------------------------
RECURSIVE Prod(_)
Prod(s) == IF s = <<>> THEN 1 ELSE Head(s) * Prod(Tail(s))

RECURSIVE SumSeq(_)
SumSeq(s) == IF s = <<>> THEN 0 ELSE Head(s) + SumSeq(Tail(s))

Reverse(s) == [i \in 1..Len(s) |-> s[Len(s) + 1 - i]]

\* v[k] for a 0-based k; g is what the read finds when k is out of range.
At(s, k, g) == IF k >= 0 /\ k < Len(s) THEN s[k + 1] ELSE g

\* s with the element at the 0-based position k erased (vector::erase).
EraseAt(s, k) == [i \in 1..(Len(s) - 1) |-> IF i <= k THEN s[i] ELSE s[i + 1]]

\* s with v inserted before the 0-based position k (vector::insert).
InsertAt(s, k, v) ==
    [i \in 1..(Len(s) + 1) |-> IF i <= k THEN s[i] ELSE IF i = k + 1 THEN v ELSE s[i - 1]]

SeqMax(s) == CHOOSE m \in {s[i] : i \in 1..Len(s)} : \A i \in 1..Len(s) : s[i] <= m

FirstPos(s, v) == CHOOSE i \in 1..Len(s) : s[i] = v /\ \A j \in 1..(i - 1) : s[j] # v

\* std::sort(..., std::greater<>()): the elements in descending order.
RECURSIVE SortDesc(_)
SortDesc(s) ==
    IF s = <<>> THEN <<>>
    ELSE LET m == SeqMax(s) IN <<m>> \o SortDesc(EraseAt(s, FirstPos(s, m) - 1))

\* utils.hpp arange: startIndex, ..., endIndex - 1.
arange(startIndex, endIndex) ==
    [i \in 1..(IF endIndex > startIndex THEN endIndex - startIndex ELSE 0) |-> startIndex + i - 1]

\* ------------------------------------------------------------------------
\* Failures.  A thrown exception is the record Err(kind); the kinds name the
\* throw sites.
\* ------------------------------------------------------------------------
Err(kind) == [error |-> kind]
IsErr(x) == DOMAIN x = {"error"}

\* ------------------------------------------------------------------------
\* TensorMeta: numel, tensorSize, rawData
\* ------------------------------------------------------------------------
Meta(n, size, data) == [numel |-> n, tensorSize |-> size, rawData |-> data]

\* TensorMeta(std::vector<double> data, std::vector<int> size)
TensorMetaData(data, size) ==
    IF Len(data) # Prod(size) THEN Err("ShapeMismatch")
    ELSE Meta(Prod(size), size, data)

\* TensorMeta(double data)
TensorMetaScalar(d) == Meta(1, <<1>>, <<d>>)

\* TensorMeta(std::vector<int> size): zero filled
TensorMetaSize(size) == Meta(Prod(size), size, [i \in 1..Prod(size) |-> 0])

\* TensorMeta() = default: the vectors are empty and numel is never written.
TensorMetaDefault(g) == Meta(g, <<>>, <<>>)

\* void updateAll(double value) { rawData.assign(numel, value); }
updateAll(meta, value) == [meta EXCEPT !.rawData = [i \in 1..meta.numel |-> value]]

ndim(meta) == Len(meta.tensorSize)

\* TensorMeta squeeze(std::vector<int> dims) const
RECURSIVE squeezeLoop(_, _, _)
squeezeLoop(meta, dims, newSize) ==
    IF dims = <<>> THEN newSize
    ELSE LET idx == Head(dims) IN
         squeezeLoop(meta, Tail(dims),
                     IF idx < ndim(meta) /\ At(meta.tensorSize, idx, 0) = 1
                     THEN EraseAt(newSize, idx) ELSE newSize)

squeeze(meta, dims) ==
    TensorMetaData(meta.rawData, squeezeLoop(meta, SortDesc(dims), meta.tensorSize))

\* TensorMeta unsqueeze(int dim = 0) const
unsqueeze(meta, dim) == TensorMetaData(meta.rawData, InsertAt(meta.tensorSize, dim, 1))

\* ------------------------------------------------------------------------
\* Broadcasting
\* ------------------------------------------------------------------------
\* The loop of fetchBroadcastedSize over the reversed shapes; idx is 0-based.
RECURSIVE fetchBroadcastedSizeLoop(_, _, _, _)
fetchBroadcastedSizeLoop(curr, incm, idx, finSize) ==
    LET n == Len(curr)
        m == Len(incm)
    IN  IF ~(idx < n \/ idx < m) THEN [size |-> Reverse(finSize)]
        ELSE IF idx < n /\ idx < m THEN
            IF curr[idx + 1] = 0 \/ incm[idx + 1] = 0 THEN Err("ZeroDim")
            ELSE IF curr[idx + 1] = incm[idx + 1]
                 THEN fetchBroadcastedSizeLoop(curr, incm, idx + 1, Append(finSize, curr[idx + 1]))
            ELSE IF curr[idx + 1] = 1
                 THEN fetchBroadcastedSizeLoop(curr, incm, idx + 1, Append(finSize, incm[idx + 1]))
            ELSE IF incm[idx + 1] = 1
                 THEN fetchBroadcastedSizeLoop(curr, incm, idx + 1, Append(finSize, curr[idx + 1]))
            ELSE Err("BroadcastError")
        ELSE IF idx < n
             THEN fetchBroadcastedSizeLoop(curr, incm, idx + 1, Append(finSize, curr[idx + 1]))
        ELSE fetchBroadcastedSizeLoop(curr, incm, idx + 1, Append(finSize, incm[idx + 1]))

\* A size computation that lets no axis of size 1 stretch.
fetchBroadcastedSize_NoStretch(sz1, sz2) ==
    IF Len(sz1) = 0 \/ Len(sz2) = 0 THEN Err("RankError")
    ELSE IF \E k \in 1..Len(sz1) : k <= Len(sz2) /\ Reverse(sz1)[k] # Reverse(sz2)[k]
         THEN Err("BroadcastError")
    ELSE fetchBroadcastedSizeLoop(Reverse(sz1), Reverse(sz2), 0, <<>>)

\* static std::vector<int> fetchBroadcastedSize(sz1, sz2): [size |-> ...] or Err
fetchBroadcastedSize(sz1, sz2) ==
    IF Len(sz1) = 0 \/ Len(sz2) = 0 THEN Err("RankError")
    ELSE fetchBroadcastedSizeLoop(Reverse(sz1), Reverse(sz2), 0, <<>>)

\* static std::vector<int> fetchStride(shape)
fetchStride(shape) == [i \in 1..Len(shape) |-> Prod(SubSeq(shape, i + 1, Len(shape)))]

\* An index computation that does not pin an axis of size 1 to position 0.
getIndex_NoStretch(indices, shape, stride) ==
    LET dimOffset == Len(indices) - Len(shape) IN
    SumSeq([i \in 1..Len(shape) |-> indices[i + dimOffset] * stride[i]]) % Prod(shape)

\* static int getIndex(indices, shape, stride)
getIndex(indices, shape, stride) ==
    LET dimOffset == Len(indices) - Len(shape) IN
    SumSeq([i \in 1..Len(shape) |->
              IF shape[i] = 1 THEN 0 ELSE indices[i + dimOffset] * stride[i]])

\* The double val1 / val2, kept as the fraction it is.
Quotient(val1, val2) == [num |-> val1, den |-> val2]

\* std::exp(val1).  The double e^val1 is no integer: the model keeps the power
\* of an integer base, which grows strictly and turns sums into products as
\* the exponential does.  Exponents are not negative in the model.
stdExp(val1) == 3 ^ val1

\* The lambdas handed to broadcast and reduce.
Apply(op, val1, val2) ==
    CASE op = "add" -> val1 + val2
      [] op = "div" -> Quotient(val1, val2)
      [] op = "sub" -> val1 - val2
      [] op = "rsub" -> val2 - val1
      [] op = "mul" -> val1 * val2
      [] op = "gt" -> IF val1 > val2 THEN 1 ELSE 0
      [] op = "ge" -> IF val1 >= val2 THEN 1 ELSE 0
      [] op = "lt" -> IF val1 < val2 THEN 1 ELSE 0
      [] op = "le" -> IF val1 <= val2 THEN 1 ELSE 0
      [] op = "max" -> IF val1 >= val2 THEN val1 ELSE val2
      [] op = "min" -> IF val1 <= val2 THEN val1 ELSE val2
      [] op = "exp" -> stdExp(val1)

\* "Update indices for broadcasting": add one to the multi-index, last axis
\* first, carrying into the axis before.  dim is a 1-based position.
RECURSIVE incrementIndices(_, _, _)
incrementIndices(indices, shape, dim) ==
    IF dim < 1 THEN indices
    ELSE IF indices[dim] + 1 < shape[dim] THEN [indices EXCEPT ![dim] = @ + 1]
    ELSE incrementIndices([indices EXCEPT ![dim] = 0], shape, dim - 1)

\* The element loop of broadcast; idx is the 0-based position in the output.
RECURSIVE broadcastLoop(_, _, _, _, _, _)
broadcastLoop(dat1, dat2, op, out, idx, indices) ==
    IF idx >= out.numel THEN out
    ELSE LET idx1 == getIndex(indices, dat1.tensorSize, fetchStride(dat1.tensorSize))
             idx2 == getIndex(indices, dat2.tensorSize, fetchStride(dat2.tensorSize))
             v == Apply(op, dat1.rawData[idx1 + 1], dat2.rawData[idx2 + 1])
         IN  broadcastLoop(dat1, dat2, op, [out EXCEPT !.rawData[idx + 1] = v], idx + 1,
                           incrementIndices(indices, out.tensorSize, Len(indices)))

\* static TensorMeta broadcast(dat1, dat2, op)
broadcast(dat1, dat2, op) ==
    LET sz == fetchBroadcastedSize(dat1.tensorSize, dat2.tensorSize) IN
    IF IsErr(sz) THEN sz
    ELSE LET out == TensorMetaSize(sz.size) IN
         broadcastLoop(dat1, dat2, op, out, 0, [i \in 1..ndim(out) |-> 0])

\* TensorMeta operator-(): broadcast against the array {0} of shape {1}
opNeg(meta) == broadcast(meta, TensorMetaData(<<0>>, <<1>>), "rsub")

\* static TensorMeta exp(meta): broadcast against TensorMeta other(1) with a
\* lambda that reads its first argument only.
exp(meta) == broadcast(meta, TensorMetaScalar(1), "exp")

\* The double a quotient of the model stands for: the whole number when the
\* divisor is 1 or -1, the fraction otherwise.
Whole(q) == IF q.den = 1 THEN q.num ELSE IF q.den = -1 THEN 0 - q.num ELSE q

\* TensorMeta operator/(const TensorMeta& other) const
opDiv(dat1, dat2) ==
    LET out == broadcast(dat1, dat2, "div") IN
    IF IsErr(out) THEN out
    ELSE [out EXCEPT !.rawData = [p \in 1..Len(out.rawData) |-> Whole(out.rawData[p])]]

\* TensorMeta& operator+=(other), operator-=(other): the value of *this after
\* the statement.  broadcast throws before the assignment is reached.
opAssign(self, other, op) ==
    LET r == broadcast(self, other, op) IN IF IsErr(r) THEN self ELSE r

\* ------------------------------------------------------------------------
\* Reductions
\* ------------------------------------------------------------------------
\* The loop of fetchSqueezedShape over the std::set of axes, largest first.
RECURSIVE fetchSqueezedShapeLoop(_, _, _, _)
fetchSqueezedShapeLoop(origShape, axesDesc, keepdims, finShape) ==
    IF axesDesc = <<>> THEN finShape
    ELSE LET dim == Head(axesDesc) IN
         fetchSqueezedShapeLoop(origShape, Tail(axesDesc), keepdims,
             IF dim < Len(origShape) /\ dim >= 0
             THEN IF keepdims THEN [finShape EXCEPT ![dim + 1] = 1]
                  ELSE EraseAt(finShape, dim)
             ELSE finShape)

\* The elements of s once each, in descending order (a std::set read backwards).
RECURSIVE Dedup(_)
Dedup(s) ==
    IF s = <<>> THEN <<>>
    ELSE IF Len(s) > 1 /\ s[1] = s[2] THEN Dedup(Tail(s)) ELSE <<Head(s)>> \o Dedup(Tail(s))

\* static std::vector<int> fetchSqueezedShape(origShape, axis = {}, keepdims = false)
fetchSqueezedShape(origShape, axis, keepdims) ==
    IF Len(axis) = 0 THEN <<1>>
    ELSE LET finShape == fetchSqueezedShapeLoop(origShape, Dedup(SortDesc(axis)), keepdims, origShape)
         IN  IF finShape = <<>> THEN <<1>> ELSE finShape

\* static std::pair<...> fetchBroadcastedAxes(base, broadcasted): <<axes, addedDims>>.
\* g is what broadcasted.tensorSize[i + shift] reads when the position is outside
\* the vector.
fetchBroadcastedAxes(base, broadcasted, g) ==
    LET shift == ndim(broadcasted) - ndim(base)
        addedDims == arange(0, shift)
        axes == SelectSeq([i \in 1..ndim(base) |-> i - 1 + shift],
                          LAMBDA a : base.tensorSize[a - shift + 1] # At(broadcasted.tensorSize, a, g))
    IN  <<axes, addedDims>>

\* static std::tuple<...> fetchReduceAxInfo(meta, axis, keepDims).  g is what
\* meta.tensorSize[axis] reads when axis is not an axis of meta.
fetchReduceAxInfo(meta, axis, keepDims, g) ==
    LET jump == Prod(SubSeq(meta.tensorSize, IF axis < 0 THEN 1 ELSE axis + 2, ndim(meta)))
        numBatches == Prod(SubSeq(meta.tensorSize, 1, IF axis < ndim(meta) THEN axis ELSE ndim(meta)))
    IN  [jump |-> jump,
         numBatches |-> numBatches,
         incrementBatchIdx |-> jump * At(meta.tensorSize, axis, g),
         outShape |-> fetchSqueezedShape(meta.tensorSize, <<axis>>, keepDims)]

\* The element loop of reduceSingle; idx is the 0-based position in the input.
RECURSIVE reduceSingleLoop(_, _, _, _, _)
reduceSingleLoop(meta, info, op, out, idx) ==
    IF idx >= meta.numel THEN out
    ELSE LET outIdx == ((idx \div info.incrementBatchIdx) * info.jump) + (idx % info.jump) IN
         IF outIdx < 0 \/ outIdx >= Len(out.rawData) THEN Err("Crash")
         ELSE reduceSingleLoop(meta, info, op,
                  [out EXCEPT !.rawData[outIdx + 1] = Apply(op, @, meta.rawData[idx + 1])],
                  idx + 1)

\* static TensorMeta reduceSingle(meta, ax, op, keepDims, initVal).  A divisor
\* that is not positive can only come from a read outside the shape vector:
\* zero traps, a negative one makes the loop write before the buffer.
reduceSingle(meta, ax, op, keepDims, initVal, g) ==
    LET info == fetchReduceAxInfo(meta, ax, keepDims, g)
        out == updateAll(TensorMetaSize(info.outShape), initVal)
    IN  IF info.incrementBatchIdx <= 0 THEN Err("Crash")
        ELSE reduceSingleLoop(meta, info, op, out, 0)

\* The loop of reduce over the sorted axes.
RECURSIVE reduceLoop(_, _, _, _, _, _)
reduceLoop(out, axis, op, keepDims, initVal, g) ==
    IF axis = <<>> \/ IsErr(out) THEN out
    ELSE reduceLoop(reduceSingle(out, Head(axis), op, keepDims, initVal, g),
                    Tail(axis), op, keepDims, initVal, g)

\* A reduce that takes the axes in the order given, without sorting them.
reduce_Unsorted(meta, axis, op, keepDims, initVal, g) ==
    reduceLoop(meta, IF Len(axis) = 0 THEN arange(0, ndim(meta)) ELSE axis,
               op, keepDims, initVal, g)

\* static TensorMeta reduce(meta, axis, op, keepDims = false, initVal = 0)
reduce(meta, axis, op, keepDims, initVal, g) ==
    reduceLoop(meta, SortDesc(IF Len(axis) = 0 THEN arange(0, ndim(meta)) ELSE axis),
               op, keepDims, initVal, g)

\* static TensorMeta sum(meta, dims = {}, keepDims = false)
sum(meta, dims, keepDims, g) == reduce(meta, dims, "add", keepDims, 0, g)

\* #define DOUBLE_MAX std::numeric_limits<double>::infinity(): a value above
\* every element an array of the model holds.
DOUBLE_MAX == 1000000

\* static TensorMeta max(meta, dims = {}, keepDims = false): reduce is called
\* without initVal, which is then its default 0.
max(meta, dims, keepDims, g) == reduce(meta, dims, "max", keepDims, 0, g)

\* static TensorMeta min(meta, dims = {}, keepDims = false)
min(meta, dims, keepDims, g) == reduce(meta, dims, "min", keepDims, DOUBLE_MAX, g)

\* TensorMeta operator/(double other) const
opDivScalar(meta, other) == broadcast(meta, TensorMetaScalar(other), "div")

\* static TensorMeta mean(meta, dims = {}, keepDims = false).  g is what
\* meta.tensorSize[ax] reads when ax is not an axis of meta.
mean(meta, dims, keepDims, g) ==
    LET out == sum(meta, dims, keepDims, g)
        divisor == Prod([i \in 1..Len(dims) |-> At(meta.tensorSize, dims[i], g)])
    IN  IF IsErr(out) THEN out ELSE opDivScalar(out, divisor)

\* operator double() const: the value, or the runtime_error of line 558
toDouble(meta) ==
    IF ndim(meta) = 1 /\ meta.tensorSize[1] = 1 THEN [value |-> meta.rawData[1]]
    ELSE Err("ScalarConversionError")

\* ------------------------------------------------------------------------
\* MatMul
\* ------------------------------------------------------------------------
\* A validation that compares the contraction sizes only.
validateMatmul_NoBatchCheck(dat1, dat2, g1, g2) ==
    LET dim1 == ndim(dat1)
        dim2 == ndim(dat2)
    IN  IF dim1 = 0 \/ dim2 = 0 THEN [flag |-> FALSE]
        ELSE [flag |-> dat1.tensorSize[dim1] = dat2.tensorSize[IF dim2 = 1 THEN 1 ELSE dim2 - 1]]

\* static bool validateMatmul(dat1, dat2); the value returned is flag.  With
\* an operand of rank 0 no branch of the if-chain applies and the last one
\* reads v1[dim1 - 1] or
\* v2[dim2 - 2] outside the vector (the value read is g1, g2); if the two
\* values compare equal the range v.begin() .. v.end() - 2 of a vector with
\* fewer than two elements is formed, which has no defined outcome.
validateMatmul(dat1, dat2, g1, g2) ==
    LET dim1 == ndim(dat1)
        dim2 == ndim(dat2)
        v1 == dat1.tensorSize
        v2 == dat2.tensorSize
    IN  IF dim1 = 1 /\ dim2 = 1 THEN [flag |-> v1[1] = v2[1]]
        ELSE IF dim1 = 1 /\ dim2 = 2 THEN [flag |-> v1[1] = v2[1]]
        ELSE IF dim1 = 2 /\ dim2 = 1 THEN [flag |-> v1[2] = v2[1]]
        ELSE IF dim1 = 2 /\ dim2 = 2 THEN [flag |-> v1[2] = v2[1]]
        ELSE IF dim1 = 1 /\ dim2 > 2 THEN [flag |-> v1[1] = v2[dim2 - 1]]
        ELSE IF dim1 > 2 /\ dim2 = 1 THEN [flag |-> v1[dim1] = v2[1]]
        ELSE IF At(v1, dim1 - 1, g1) # At(v2, dim2 - 2, g2) THEN [flag |-> FALSE]
        ELSE IF dim1 < 2 \/ dim2 < 2 THEN Err("Crash")
        ELSE LET p1 == SubSeq(v1, 1, dim1 - 2)
                 p2 == SubSeq(v2, 1, dim2 - 2)
                 v1Part == IF p1 = <<>> THEN <<1>> ELSE p1
                 v2Part == IF p2 = <<>> THEN <<1>> ELSE p2
             IN  [flag |-> ~IsErr(fetchBroadcastedSize(v1Part, v2Part))]

\* A result shape that takes the batch axes of the first operand as they are.
fetchMatmulSize_FirstBatch(dat1, dat2, g1, g2) ==
    LET execFlag == validateMatmul(dat1, dat2, g1, g2)
        sz1 == dat1.tensorSize
        sz2 == dat2.tensorSize
        p1 == SubSeq(sz1, 1, Len(sz1) - 2)
    IN  IF IsErr(execFlag) THEN execFlag
        ELSE IF ~execFlag.flag THEN Err("ShapeMismatch")
        ELSE [size |-> (IF p1 = <<>> THEN <<1>> ELSE p1) \o
                       <<At(sz1, Len(sz1) - 2, g1), At(sz2, Len(sz2) - 1, g2)>>]

\* static std::vector<int> fetchMatmulSize(dat1, dat2)
fetchMatmulSize(dat1, dat2, g1, g2) ==
    LET execFlag == validateMatmul(dat1, dat2, g1, g2)
        sz1 == dat1.tensorSize
        sz2 == dat2.tensorSize
        M == At(sz1, Len(sz1) - 2, g1)
        N == At(sz2, Len(sz2) - 1, g2)
    IN  IF IsErr(execFlag) THEN execFlag
        ELSE IF ~execFlag.flag THEN Err("ShapeMismatch")
        ELSE IF Len(sz1) = 2 /\ Len(sz2) = 2 THEN [size |-> <<M, N>>]
        ELSE LET p1 == SubSeq(sz1, 1, Len(sz1) - 2)
                 p2 == SubSeq(sz2, 1, Len(sz2) - 2)
                 v1Part == IF p1 = <<>> THEN <<1>> ELSE p1
                 v2Part == IF p2 = <<>> THEN <<1>> ELSE p2
                 matmulSize == fetchBroadcastedSize(v1Part, v2Part)
             IN  IF IsErr(matmulSize) THEN matmulSize
                 ELSE [size |-> matmulSize.size \o <<M, N>>]

\* static void matmulAtomic(A, B, out, offSetA, offSetB, offSetOut, M, K, N):
\* the three assertions, then cblas_dgemm on row-major M x K and K x N blocks;
\* the value is the new content of out.
matmulAtomic(A, B, out, offSetA, offSetB, offSetOut, M, K, N) ==
    IF \/ Len(A) < offSetA + M * K
       \/ Len(B) < offSetB + K * N
       \/ Len(out) < offSetOut + M * N
    THEN Err("Crash")
    ELSE [out |-> [i \in 1..Len(out) |->
            IF i - 1 >= offSetOut /\ i - 1 < offSetOut + M * N
            THEN LET m == (i - 1 - offSetOut) \div N
                     n == (i - 1 - offSetOut) % N
                 IN  SumSeq([k \in 1..K |->
                               A[offSetA + m * K + k] * B[offSetB + (k - 1) * N + n + 1]])
            ELSE out[i]]]

\* static int getMatmulBatchIndex(shape, stride, indices)
getMatmulBatchIndex(shape, stride, indices) ==
    LET dimShift == Len(indices) - Len(shape) + 2 IN
    SumSeq([i \in 1..(Len(shape) - 2) |->
              IF shape[i] = 1 THEN 0 ELSE indices[i + dimShift] * stride[i]])

\* The batch loop of matmulBroadcast.
RECURSIVE matmulBroadcastLoop(_, _, _, _, _, _)
matmulBroadcastLoop(dat1, dat2, out, batchIdx, batchSize, indices) ==
    IF batchIdx >= batchSize THEN out
    ELSE LET outShape == out.tensorSize
             M == outShape[Len(outShape) - 1]
             N == outShape[Len(outShape)]
             K == dat1.tensorSize[ndim(dat1)]
             offSet1 == getMatmulBatchIndex(dat1.tensorSize, fetchStride(dat1.tensorSize), indices)
             offSet2 == getMatmulBatchIndex(dat2.tensorSize, fetchStride(dat2.tensorSize), indices)
             offSetOut == batchIdx * (M * N)
             raw == matmulAtomic(dat1.rawData, dat2.rawData, out.rawData,
                                 offSet1, offSet2, offSetOut, M, K, N)
         IN  IF IsErr(raw) THEN raw
             ELSE matmulBroadcastLoop(dat1, dat2, [out EXCEPT !.rawData = raw.out], batchIdx + 1,
                                      batchSize, incrementIndices(indices, outShape, Len(indices)))

\* static TensorMeta matmulBroadcast(dat1, dat2)
matmulBroadcast(dat1, dat2, g1, g2) ==
    LET outShape == fetchMatmulSize(dat1, dat2, g1, g2) IN
    IF IsErr(outShape) THEN outShape
    ELSE LET out == TensorMetaSize(outShape.size)
             batchSize == Prod(SubSeq(out.tensorSize, 1, ndim(out) - 2))
         IN  matmulBroadcastLoop(dat1, dat2, out, 0, batchSize,
                                 [i \in 1..(Len(outShape.size) - 2) |-> 0])

\* out.squeeze(dim) of a product that may have thrown
squeezeOut(out, dim) == IF IsErr(out) THEN out ELSE squeeze(out, <<dim>>)

\* The squeeze calls that follow matmulBroadcast in the branches of matmul
\* that call it directly: 1-D x 1-D squeezes axis 2 then axis 0, 1-D x N-D
\* squeezes axis ndim - 2, N-D x 1-D squeezes axis ndim - 1.
squeezeProduct(out, dim1, dim2) ==
    IF IsErr(out) THEN out
    ELSE IF dim1 = 1 /\ dim2 = 1 THEN squeezeOut(squeezeOut(out, 2), 0)
    ELSE IF dim1 = 1 THEN squeezeOut(out, ndim(out) - 2)
    ELSE IF dim1 # 2 /\ dim2 = 1 THEN squeezeOut(out, ndim(out) - 1)
    ELSE out

\* static TensorMeta matmul(dat1, dat2)
\* The branches 2-D x 2-D, 1-D x 2-D and 2-D x 1-D call matmul again; every
\* other branch calls matmulBroadcast on the operands lhs and rhs: a 1-D left
\* operand is unsqueezed twice at axis 0, a 2-D one once, a 1-D right operand
\* at axis 1 and then 0, a 2-D one at axis 0.
RECURSIVE matmul(_, _, _, _)
matmul(dat1, dat2, g1, g2) ==
    LET matmulFlag == validateMatmul(dat1, dat2, g1, g2)
        dim1 == ndim(dat1)
        dim2 == ndim(dat2)
        lhs == IF dim1 = 1 THEN unsqueeze(unsqueeze(dat1, 0), 0)
               ELSE IF dim1 = 2 THEN unsqueeze(dat1, 0)
               ELSE dat1
        rhs == IF dim2 = 1 THEN unsqueeze(unsqueeze(dat2, 1), 0)
               ELSE IF dim2 = 2 THEN unsqueeze(dat2, 0)
               ELSE dat2
    IN  IF IsErr(matmulFlag) THEN matmulFlag
        ELSE IF ~matmulFlag.flag THEN Err("ShapeMismatch")
        ELSE IF dim1 = 2 /\ dim2 = 2
        THEN squeezeOut(matmul(unsqueeze(dat1, 0), unsqueeze(dat2, 0), g1, g2), 0)
        ELSE IF dim1 = 1 /\ dim2 = 2
        THEN squeezeOut(matmul(unsqueeze(dat1, 0), dat2, g1, g2), 0)
        ELSE IF dim1 = 2 /\ dim2 = 1
        THEN squeezeOut(matmul(dat1, unsqueeze(dat2, 1), g1, g2), 1)
        ELSE squeezeProduct(matmulBroadcast(lhs, rhs, g1, g2), dim1, dim2)


\* ------------------------------------------------------------------------
\* Wrangler: permute, transpose, T
\* ------------------------------------------------------------------------
\* The element loop of a permute that writes the coordinate of axis dim of the
\* source into axis perm[dim] of the result.
RECURSIVE permuteLoop_Scatter(_, _, _, _, _, _, _)
permuteLoop_Scatter(meta, perm, newShape, copy, ix, indices, g2) ==
    IF ix >= meta.numel THEN [raw |-> copy]
    ELSE LET n == ndim(meta)
             newIndices == [d \in 1..n |->
                              LET src == {e \in 1..n : perm[e] = d - 1} IN
                              IF src = {} THEN g2 ELSE indices[CHOOSE e \in src : TRUE]]
             newIndex == getIndex(newIndices, newShape, fetchStride(newShape))
         IN  IF newIndex < 0 \/ newIndex >= Len(copy) THEN Err("Crash")
             ELSE permuteLoop_Scatter(meta, perm, newShape,
                                      [copy EXCEPT ![newIndex + 1] = meta.rawData[ix + 1]],
                                      ix + 1, incrementIndices(indices, meta.tensorSize, n), g2)

\* The element loop of permute; ix is the 0-based position in the source.  A
\* perm[dim] outside 0..n-1 reads indices outside the vector (the value read
\* is g2); a write outside rawDataCopy has no defined outcome.
RECURSIVE permuteLoop(_, _, _, _, _, _, _)
permuteLoop(meta, perm, newShape, copy, ix, indices, g2) ==
    IF ix >= meta.numel THEN [raw |-> copy]
    ELSE LET n == ndim(meta)
             newIndices == [d \in 1..n |-> At(indices, perm[d], g2)]
             newIndex == getIndex(newIndices, newShape, fetchStride(newShape))
         IN  IF newIndex < 0 \/ newIndex >= Len(copy) THEN Err("Crash")
             ELSE permuteLoop(meta, perm, newShape,
                              [copy EXCEPT ![newIndex + 1] = meta.rawData[ix + 1]],
                              ix + 1, incrementIndices(indices, meta.tensorSize, n), g2)

\* A permute whose element loop scatters where the shape gathers.
permute_Scatter(meta, perm, g1, g2) ==
    LET n == ndim(meta) IN
    IF Len(perm) # n THEN Err("Crash")
    ELSE LET newShape == [d \in 1..n |-> At(meta.tensorSize, perm[d], g1)]
             r == permuteLoop_Scatter(meta, perm, newShape, [i \in 1..meta.numel |-> -1], 0,
                                      [d \in 1..n |-> 0], g2)
         IN  IF IsErr(r) THEN r ELSE TensorMetaData(r.raw, newShape)

\* TensorMeta permute(std::vector<int> perm) const.  The assertion on the
\* length of perm ends the process; a perm[dim] outside 0..n-1 reads
\* tensorSize outside the vector (the value read is g1).
permute(meta, perm, g1, g2) ==
    LET n == ndim(meta) IN
    IF Len(perm) # n THEN Err("Crash")
    ELSE LET newShape == [d \in 1..n |-> At(meta.tensorSize, perm[d], g1)]
             r == permuteLoop(meta, perm, newShape, [i \in 1..meta.numel |-> -1], 0,
                              [d \in 1..n |-> 0], g2)
         IN  IF IsErr(r) THEN r ELSE TensorMetaData(r.raw, newShape)

\* TensorMeta transpose(int dim1 = -1, int dim2 = -2): axes are counted from
\* the end when negative and are not checked.  std::iter_swap on a position
\* outside perm reads what lies there (g) into the other position; with no
\* axis at all both positions lie off the null buffer of an empty vector
\* and the process traps.
transpose(meta, dim1, dim2, g) ==
    LET n == ndim(meta)
        d1 == IF dim1 < 0 THEN n + dim1 ELSE dim1
        d2 == IF dim2 < 0 THEN n + dim2 ELSE dim2
        at(d) == IF d >= 0 /\ d < n THEN d ELSE g
        perm == [i \in 1..n |-> IF i = d1 + 1 THEN at(d2) ELSE IF i = d2 + 1 THEN at(d1) ELSE i - 1]
    IN  IF n = 0 THEN Err("Crash") ELSE permute(meta, perm, g, g)

\* TensorMeta T(): all axes reversed
T(meta) == permute(meta, Reverse(arange(0, ndim(meta))), 0, 0)

\* ------------------------------------------------------------------------
\* Tensor::squeezeSum: the incoming gradient dat2 brought to the shape of dat1.
\* The structured binding names the first component of the pair addedDims and
\* the second bcDims.
\* ------------------------------------------------------------------------
squeezeSum(dat1, dat2, g) ==
    LET pair == fetchBroadcastedAxes(dat1, dat2, g)
        addedDims == pair[1]
        bcDims == pair[2]
        out1 == IF Len(bcDims) # 0 THEN sum(dat2, bcDims, FALSE, g) ELSE dat2
    IN  IF IsErr(out1) THEN out1
        ELSE IF Len(addedDims) # 0 THEN sum(out1, addedDims, TRUE, g) ELSE out1

\* ------------------------------------------------------------------------
\* Tensor (src/rash/tensor.hpp).  Tensor k of the program is position k of the
\* sequences below; a tensor points at its operands by their positions.
\* ------------------------------------------------------------------------
VARIABLES
    data_,          \* data_[k]: the value, a TensorMeta
    grad,           \* grad[k]: the gradient, a TensorMeta
    requiresGrad,   \* requiresGrad[k]
    bwOp,           \* _backward of tensor k: "none" (empty) or the operation whose closure it holds
    prev,           \* prev[k]: the operands, in order
    gradVisited,    \* gradVisited[k]: the entry gradVisited[tag] of tensor k's own map
    nbw,            \* calls of backward() so far
    err,            \* how the last call ended: "ok" or the kind of failure
    last,           \* the last call and what it was given
    order,          \* the tensors whose closure the last backward() invoked, in order
    pc,             \* where main() of the optimisation test stands
    x, y,           \* two arrays (the array-level operations act on x)
    res,            \* what the last array-level operation returned or threw
    steps           \* setter calls, or array-level operations, so far

vars == <<data_, grad, requiresGrad, bwOp, prev, gradVisited, nbw, err, last, order, pc, x, y, res, steps>>
tensorVars == <<data_, grad, requiresGrad, bwOp, prev, gradVisited, nbw, err, order>>
arrayVars == <<x, y, res>>

nn == Len(data_)
Nodes == 1..nn

\* The state one call of backward() works on.
BwState(g_, v_, e_, o_) == [grad |-> g_, gradVisited |-> v_, err |-> e_, order |-> o_]

\* A closure that stores the contribution instead of adding it.
accumulate_Overwrite(st, target, op, contrib) ==
    IF st.err # "ok" THEN st
    ELSE IF IsErr(contrib) THEN [st EXCEPT !.err = contrib.error]
    ELSE [st EXCEPT !.grad[target] = contrib]

\* "target.grad += contrib" or "target.grad -= contrib" inside a closure.  An
\* exception thrown while contrib is computed, or by the operator, leaves the
\* statement undone and ends the traversal.
accumulate(st, target, op, contrib) ==
    IF st.err # "ok" THEN st
    ELSE IF IsErr(contrib) THEN [st EXCEPT !.err = contrib.error]
    ELSE LET r == broadcast(st.grad[target], contrib, op) IN
         IF IsErr(r) THEN [st EXCEPT !.err = r.error]
         ELSE [st EXCEPT !.grad[target] = opAssign(st.grad[target], contrib, op)]

\* squeezeSum(target.grad, contrib), with an exception in contrib passed on.
squeezed(st, target, contrib, g) ==
    IF st.err # "ok" \/ IsErr(contrib) THEN contrib ELSE squeezeSum(st.grad[target], contrib, g)

\* Closures whose subtraction adds the incoming gradient to both operands.
closure_SubAddsBoth(st, n, incGrad, g) ==
    LET a == prev[n][1]
        b == prev[n][Len(prev[n])]
        onA(s, op, contrib) ==
            IF requiresGrad[a] THEN accumulate(s, a, op, squeezed(s, a, contrib, g)) ELSE s
        onB(s, op, contrib) ==
            IF s.err = "ok" /\ requiresGrad[b] THEN accumulate(s, b, op, squeezed(s, b, contrib, g)) ELSE s
    IN  CASE bwOp[n] = "add" -> onB(onA(st, "add", incGrad), "add", incGrad)
          [] bwOp[n] = "neg" -> onA(st, "sub", incGrad)
          [] bwOp[n] = "sub" -> onB(onA(st, "add", incGrad), "add", incGrad)
          [] bwOp[n] = "mul" ->
                 LET s1 == onA(st, "add", broadcast(data_[b], incGrad, "mul")) IN
                 onB(s1, "add", broadcast(data_[a], incGrad, "mul"))
          [] bwOp[n] = "exp" ->
                 IF requiresGrad[a]
                 THEN accumulate(st, a, "add", broadcast(data_[n], incGrad, "mul"))
                 ELSE st
          [] bwOp[n] = "T" ->
                 IF requiresGrad[a] THEN accumulate(st, a, "add", T(incGrad)) ELSE st
          [] bwOp[n] = "matmul" ->
                 LET mm(u, v) == IF IsErr(u) THEN u ELSE IF IsErr(v) THEN v ELSE matmul(u, v, g, g)
                     s1 == onA(st, "add", mm(incGrad, transpose(data_[b], -1, -2, g)))
                 IN  onB(s1, "add", mm(transpose(data_[a], -1, -2, g), incGrad))
          [] bwOp[n] = "div" ->
                 LET dv(u, v) == IF IsErr(u) THEN u ELSE IF IsErr(v) THEN v ELSE opDiv(u, v)
                     s1 == onA(st, "add", dv(incGrad, data_[b]))
                     sq == broadcast(data_[b], data_[b], "mul")
                     qt == dv(data_[a], sq)
                 IN  onB(s1, "sub", IF IsErr(qt) THEN qt ELSE broadcast(qt, incGrad, "mul"))
          [] bwOp[n] = "relu" ->
                 LET mask == broadcast(data_[n], TensorMetaScalar(0), "gt")
                 IN  onA(st, "add", broadcast(incGrad, mask, "mul"))
\* The closure stored in tensor n by the operation that made it, invoked with
\* incGrad.  Each operand is updated only when it requires a gradient.  The
\* closure of exp holds expVal, a copy of the value the constructor stored in
\* tensor n: it is data_[n], since no updateData is called on a result of exp.
closure(st, n, incGrad, g) ==
    LET a == prev[n][1]
        b == prev[n][Len(prev[n])]
        onA(s, op, contrib) ==
            IF requiresGrad[a] THEN accumulate(s, a, op, squeezed(s, a, contrib, g)) ELSE s
        onB(s, op, contrib) ==
            IF s.err = "ok" /\ requiresGrad[b] THEN accumulate(s, b, op, squeezed(s, b, contrib, g)) ELSE s
    IN  CASE bwOp[n] = "add" -> onB(onA(st, "add", incGrad), "add", incGrad)
          [] bwOp[n] = "neg" -> onA(st, "sub", incGrad)
          [] bwOp[n] = "sub" -> onB(onA(st, "add", incGrad), "sub", incGrad)
          [] bwOp[n] = "mul" ->
                 LET s1 == onA(st, "add", broadcast(data_[b], incGrad, "mul")) IN
                 onB(s1, "add", broadcast(data_[a], incGrad, "mul"))
          [] bwOp[n] = "exp" ->
                 IF requiresGrad[a]
                 THEN accumulate(st, a, "add", broadcast(data_[n], incGrad, "mul"))
                 ELSE st
          [] bwOp[n] = "T" ->
                 IF requiresGrad[a] THEN accumulate(st, a, "add", T(incGrad)) ELSE st
          [] bwOp[n] = "matmul" ->
                 LET mm(u, v) == IF IsErr(u) THEN u ELSE IF IsErr(v) THEN v ELSE matmul(u, v, g, g)
                     s1 == onA(st, "add", mm(incGrad, transpose(data_[b], -1, -2, g)))
                 IN  onB(s1, "add", mm(transpose(data_[a], -1, -2, g), incGrad))
          [] bwOp[n] = "div" ->
                 LET dv(u, v) == IF IsErr(u) THEN u ELSE IF IsErr(v) THEN v ELSE opDiv(u, v)
                     s1 == onA(st, "add", dv(incGrad, data_[b]))
                     sq == broadcast(data_[b], data_[b], "mul")
                     qt == dv(data_[a], sq)
                 IN  onB(s1, "sub", IF IsErr(qt) THEN qt ELSE broadcast(qt, incGrad, "mul"))
          [] bwOp[n] = "relu" ->
                 LET mask == broadcast(data_[n], TensorMetaScalar(0), "gt")
                 IN  onA(st, "add", broadcast(incGrad, mask, "mul"))

\* void backward(bool isRoot, bool verbose) below the isRoot block, and the
\* loop over prev that calls it on each operand.
RECURSIVE backwardVisit(_, _, _), backwardPrev(_, _, _, _)
backwardVisit(st, n, g) ==
    IF st.err # "ok" \/ st.gradVisited[n] THEN st
    ELSE LET marked == [st EXCEPT !.gradVisited[n] = TRUE] IN
         IF requiresGrad[n] /\ bwOp[n] # "none"
         THEN backwardPrev(closure([marked EXCEPT !.order = Append(@, n)], n, marked.grad[n], g),
                           n, 1, g)
         ELSE marked

backwardPrev(st, n, i, g) ==
    IF i > Len(prev[n]) THEN st
    ELSE backwardPrev(backwardVisit(st, prev[n][i], g), n, i + 1, g)

\* backward() as the caller invokes it (isRoot = true): the gradient of the
\* root becomes all ones and the root's own map is cleared.
backward(r, g) ==
    backwardVisit(BwState([grad EXCEPT ![r] = updateAll(@, 1)],
                          [gradVisited EXCEPT ![r] = FALSE], "ok", <<>>),
                  r, g)

\* ------------------------------------------------------------------------
\* The operations of Tensor as actions.  The program is single threaded: a
\* call runs to its end before the next one starts, and nothing runs once the
\* process has trapped.
\* ------------------------------------------------------------------------
Running == err # "Crash"

\* What the model remembers of the last call: the operation, the tensor it
\* was called on, and two facts about the state it started from.
Call(op, n, f1, f2) == [op |-> op, node |-> n, flag1 |-> f1, flag2 |-> f2]

AllZero(meta) == \A i \in 1..Len(meta.rawData) : meta.rawData[i] = 0

\* The tensors reachable from r over prev, r included.
RECURSIVE ReachFrom(_, _)
ReachFrom(todo, seen) ==
    IF todo \subseteq seen THEN seen
    ELSE ReachFrom(UNION {{prev[k][i] : i \in 1..Len(prev[k])} : k \in todo \ seen},
                   seen \cup todo)

Reach(r) == ReachFrom({r}, {})

\* Tensor(TensorMeta data, bool requiresGrad): the gradient is a copy of the
\* value filled with zeros.  fn and operands are what the operation that
\* called the constructor stores into the result afterwards.
construct(d, rg, fn, operands) ==
    /\ data_' = Append(data_, d)
    /\ grad' = Append(grad, updateAll(d, 0))
    /\ requiresGrad' = Append(requiresGrad, rg)
    /\ bwOp' = Append(bwOp, fn)
    /\ prev' = Append(prev, operands)
    /\ gradVisited' = Append(gradVisited, FALSE)

\* A tensor made by the program from a value.
NewTensor(d, rg) ==
    /\ Running
    /\ construct(d, rg, "none", <<>>)
    /\ err' = "ok"
    /\ last' = Call("new", 0, FALSE, FALSE)
    /\ UNCHANGED <<nbw, order, arrayVars>>

\* operator+, operator-(Tensor&), operator*: out = i op j
BinaryOp(op, i, j) ==
    /\ Running
    /\ LET v == broadcast(data_[i], data_[j], op) IN
       IF IsErr(v)
       THEN /\ err' = v.error
            /\ UNCHANGED <<data_, grad, requiresGrad, bwOp, prev, gradVisited>>
       ELSE /\ err' = "ok"
            /\ construct(v, requiresGrad[i] \/ requiresGrad[j], op, <<i, j>>)
    /\ last' = Call("op", 0, FALSE, FALSE)
    /\ UNCHANGED <<nbw, order, arrayVars>>

\* operator-(): out = -i
Negate(i) ==
    /\ Running
    /\ LET v == opNeg(data_[i]) IN
       IF IsErr(v)
       THEN /\ err' = v.error
            /\ UNCHANGED <<data_, grad, requiresGrad, bwOp, prev, gradVisited>>
       ELSE /\ err' = "ok"
            /\ construct(v, requiresGrad[i], "neg", <<i>>)
    /\ last' = Call("op", 0, FALSE, FALSE)
    /\ UNCHANGED <<nbw, order, arrayVars>>

\* Tensor exp(): out = exp(i)
Exp(i) ==
    /\ Running
    /\ \A p \in 1..Len(data_[i].rawData) : data_[i].rawData[p] >= 0
    /\ LET expVal == exp(data_[i]) IN
       IF IsErr(expVal)
       THEN /\ err' = expVal.error
            /\ UNCHANGED <<data_, grad, requiresGrad, bwOp, prev, gradVisited>>
       ELSE /\ err' = "ok"
            /\ construct(expVal, requiresGrad[i], "exp", <<i>>)
    /\ last' = Call("op", 0, FALSE, FALSE)
    /\ UNCHANGED <<nbw, order, arrayVars>>

\* Tensor T(): out = i.T()
TensorT(i) ==
    /\ Running
    /\ LET v == T(data_[i]) IN
       IF IsErr(v)
       THEN /\ err' = v.error
            /\ UNCHANGED <<data_, grad, requiresGrad, bwOp, prev, gradVisited>>
       ELSE /\ err' = "ok"
            /\ construct(v, requiresGrad[i], "T", <<i>>)
    /\ last' = Call("op", 0, FALSE, FALSE)
    /\ UNCHANGED <<nbw, order, arrayVars>>

\* Tensor matmul(Tensor& other): out = i.matmul(j)
TensorMatmul(i, j, g) ==
    /\ Running
    /\ LET v == matmul(data_[i], data_[j], g, g) IN
       IF IsErr(v)
       THEN /\ err' = v.error
            /\ UNCHANGED <<data_, grad, requiresGrad, bwOp, prev, gradVisited>>
       ELSE /\ err' = "ok"
            /\ construct(v, requiresGrad[i] \/ requiresGrad[j], "matmul", <<i, j>>)
    /\ last' = Call("op", 0, FALSE, FALSE)
    /\ UNCHANGED <<nbw, order, arrayVars>>

\* operator/(Tensor& other): out = i / j.  The model holds whole numbers:
\* the divisor's elements are 1 or -1.
Divide(i, j) ==
    /\ Running
    /\ \A p \in 1..Len(data_[j].rawData) : data_[j].rawData[p] \in {1, -1}
    /\ LET v == opDiv(data_[i], data_[j]) IN
       IF IsErr(v)
       THEN /\ err' = v.error
            /\ UNCHANGED <<data_, grad, requiresGrad, bwOp, prev, gradVisited>>
       ELSE /\ err' = "ok"
            /\ construct(v, requiresGrad[i] \/ requiresGrad[j], "div", <<i, j>>)
    /\ last' = Call("op", 0, FALSE, FALSE)
    /\ UNCHANGED <<nbw, order, arrayVars>>

\* A ReLU whose result never tracks gradients.
ReLU_NeverTracks(i) ==
    /\ Running
    /\ LET mask == broadcast(data_[i], TensorMetaScalar(0), "gt")
           v == broadcast(mask, data_[i], "mul")
       IN  /\ err' = "ok"
           /\ construct(v, FALSE, "relu", <<i>>)
    /\ last' = Call("op", 0, FALSE, FALSE)
    /\ UNCHANGED <<nbw, order, arrayVars>>

\* ReLU::forward(const Tensor& t): mask = t.data_ > 0.0, out = mask * t.data_
\* with t's flag and t as the one parent.  The closure multiplies the incoming
\* gradient by the mask, which is also out.data_ > 0.
ReLU(i) ==
    /\ Running
    /\ LET mask == broadcast(data_[i], TensorMetaScalar(0), "gt")
           v == broadcast(mask, data_[i], "mul")
       IN  /\ err' = "ok"
           /\ construct(v, requiresGrad[i], "relu", <<i>>)
    /\ last' = Call("op", 0, FALSE, FALSE)
    /\ UNCHANGED <<nbw, order, arrayVars>>

\* t = i op j for an existing tensor t: operator op builds the result out
\* with prev = {&i, &j}, and the implicit copy assignment copies every member
\* of out into t.  The tensors that hold &t keep it.
Assign(t, op, i, j) ==
    /\ Running
    /\ LET v == broadcast(data_[i], data_[j], op) IN
       IF IsErr(v)
       THEN /\ err' = v.error
            /\ UNCHANGED <<data_, grad, requiresGrad, bwOp, prev, gradVisited>>
       ELSE /\ err' = "ok"
            /\ data_' = [data_ EXCEPT ![t] = v]
            /\ grad' = [grad EXCEPT ![t] = updateAll(v, 0)]
            /\ requiresGrad' = [requiresGrad EXCEPT ![t] = requiresGrad[i] \/ requiresGrad[j]]
            /\ bwOp' = [bwOp EXCEPT ![t] = op]
            /\ prev' = [prev EXCEPT ![t] = <<i, j>>]
            /\ gradVisited' = [gradVisited EXCEPT ![t] = FALSE]
    /\ last' = Call("assign", t, FALSE, FALSE)
    /\ UNCHANGED <<nbw, order, arrayVars>>

\* r.backward().  flag1: every gradient was zero when the call started.
\* flag2: no tensor below r carried a visited mark when the call started.
Backward(r, g) ==
    /\ Running
    /\ \E st \in {backward(r, g)} :
        /\ grad' = st.grad
        /\ gradVisited' = st.gradVisited
        /\ err' = st.err
        /\ order' = st.order
    /\ nbw' = nbw + 1
    /\ last' = Call("backward", r,
                    \A k \in Nodes : AllZero(grad[k]),
                    \A k \in Reach(r) \ {r} : ~gradVisited[k])
    /\ UNCHANGED <<data_, requiresGrad, bwOp, prev, arrayVars>>

\* void updateData(TensorMeta value) { this->data_ = value; }
\* flag1: the shape of value is not the shape of the tensor's value.
updateData(n, value) ==
    /\ Running
    /\ data_' = [data_ EXCEPT ![n] = value]
    /\ err' = "ok"
    /\ last' = Call("updateData", n, value.tensorSize # data_[n].tensorSize, FALSE)
    /\ UNCHANGED <<grad, requiresGrad, bwOp, prev, gradVisited, nbw, order, arrayVars>>

\* void updaetGrad(TensorMeta value) { this->grad = value; }
\* flag1: the shape of value is not the shape of the tensor's gradient.
updaetGrad(n, value) ==
    /\ Running
    /\ grad' = [grad EXCEPT ![n] = value]
    /\ err' = "ok"
    /\ last' = Call("updaetGrad", n, value.tensorSize # grad[n].tensorSize, FALSE)
    /\ UNCHANGED <<data_, requiresGrad, bwOp, prev, gradVisited, nbw, order, arrayVars>>

\* void zeroGrad() { this->grad.updateAll(0.0); }
zeroGrad(n) ==
    /\ Running
    /\ grad' = [grad EXCEPT ![n] = updateAll(@, 0)]
    /\ err' = "ok"
    /\ last' = Call("zeroGrad", n, FALSE, FALSE)
    /\ UNCHANGED <<data_, requiresGrad, bwOp, prev, gradVisited, nbw, order, arrayVars>>

\* ~Tensor() of the tensor constructed last: automatic variables leave their
\* scope in the reverse order of their construction.
Destroy ==
    /\ Running /\ nn > 0
    /\ data_' = SubSeq(data_, 1, nn - 1)
    /\ grad' = SubSeq(grad, 1, nn - 1)
    /\ requiresGrad' = SubSeq(requiresGrad, 1, nn - 1)
    /\ bwOp' = SubSeq(bwOp, 1, nn - 1)
    /\ prev' = SubSeq(prev, 1, nn - 1)
    /\ gradVisited' = SubSeq(gradVisited, 1, nn - 1)
    /\ err' = "ok"
    /\ last' = Call("destroy", 0, FALSE, FALSE)
    /\ UNCHANGED <<nbw, order, arrayVars>>

NoCall == Call("init", 0, FALSE, FALSE)

InitTensors ==
    /\ data_ = <<>> /\ grad = <<>> /\ requiresGrad = <<>> /\ bwOp = <<>> /\ prev = <<>>
    /\ gradVisited = <<>> /\ nbw = 0 /\ err = "ok" /\ last = NoCall /\ order = <<>>
    /\ pc = "none"

InitArrays ==
    /\ x = TensorMetaScalar(0) /\ y = TensorMetaScalar(0) /\ res = TensorMetaScalar(0)
    /\ steps = 0

\* ------------------------------------------------------------------------
\* Spec: any program over scalar tensors.
\* ------------------------------------------------------------------------
\* The tensors the program makes from values: value and requiresGrad.
Leaves == {<<TensorMetaScalar(2), TRUE>>, <<TensorMetaScalar(3), FALSE>>}

Init == InitTensors /\ InitArrays

Next ==
    /\ \/ \E l \in Leaves : nn < MaxNodes /\ NewTensor(l[1], l[2])
       \/ \E op \in {"add", "mul"}, i \in Nodes, j \in Nodes :
              nn < MaxNodes /\ BinaryOp(op, i, j)
       \/ \E i \in Nodes : nn < MaxNodes /\ Negate(i)
       \/ \E r \in Nodes, g \in Garbage : nbw < MaxBackward /\ Backward(r, g)
    /\ UNCHANGED <<pc, steps>>

Spec == Init /\ [][Next]_vars

\* ------------------------------------------------------------------------
\* Reverse-mode differentiation: what backward() is to compute.
\* ------------------------------------------------------------------------
\* The tensors of the graph whose closure a backward() pass has to run.
HasClosure(n) == requiresGrad[n] /\ bwOp[n] # "none"

\* The derivative of the value of scalar tensor n by its k-th operand.
LocalDeriv(n, k) ==
    CASE bwOp[n] = "add" -> 1
      [] bwOp[n] = "sub" -> IF k = 1 THEN 1 ELSE -1
      [] bwOp[n] = "neg" -> -1
      [] bwOp[n] = "mul" -> data_[prev[n][3 - k]].rawData[1]
      [] bwOp[n] = "exp" -> stdExp(data_[prev[n][1]].rawData[1])
      [] OTHER -> 0

\* The derivative of scalar tensor n by scalar tensor t: the sum, over every
\* path from n down to t, of the product of the local derivatives on it.
RECURSIVE PathSum(_, _)
PathSum(n, t) ==
    IF n = t THEN 1
    ELSE SumSeq([k \in 1..Len(prev[n]) |-> LocalDeriv(n, k) * PathSum(prev[n][k], t)])

\* How often the last backward() ran the closure of n.
Runs(n) == Cardinality({p \in 1..Len(order) : order[p] = n})

\* The last call was a backward() that ended normally.
AfterBackward == last.op = "backward" /\ err = "ok"

\* C1: after backward() on a result, started with every gradient zero and no
\* visited mark below the result, the gradient of every tensor that requires
\* gradients and is reachable from the result is the sum of the contributions
\* over all paths from the result to it.
C1_GradSumsAllPaths ==
    (AfterBackward /\ last.flag1 /\ last.flag2) =>
        \A t \in Reach(last.node) :
            requiresGrad[t] => grad[t].rawData[1] = PathSum(last.node, t)

\* C2: backward() runs the closures in topological order: the closure of a
\* tensor runs only after the closure of every tensor of the graph that
\* consumes it.
C2_ClosuresInTopologicalOrder ==
    (AfterBackward /\ last.flag2) =>
        \A p \in 1..Len(order) :
            \A m \in Reach(last.node) :
                (HasClosure(m) /\ \E k \in 1..Len(prev[m]) : prev[m][k] = order[p])
                    => \E q \in 1..(p - 1) : order[q] = m

\* C3: one backward() call runs the closure of every tensor of the graph
\* exactly once, however many paths reach the tensor.
C3_ClosureRunsExactlyOnce ==
    AfterBackward => \A n \in Reach(last.node) : HasClosure(n) => Runs(n) = 1

\* ------------------------------------------------------------------------
\* SpecLoop: main() of tests/fairlySimpleOptimizationTaskUsingTensors.cpp.
\* Tensors a and b are 1 and 2.  Each pass of the while loop resets the
\* gradients, builds d = a * a, e = b * b, f = d + e (tensors 3, 4, 5), calls
\* f.backward(), updates a and b, and leaves the scope of f, e and d.  A pass
\* may instead run the short program d = a + a; d.backward().  The doubles of
\* the weight update are replaced by a choice among LoopValues, and the loop
\* condition by a free choice.
\* ------------------------------------------------------------------------
LoopValues == {1, 3, 5}

\* for (auto& [tag, tensor] : Tensor::tensors) tensor->updaetGrad(0);
\* At the head of the loop the registry holds the live tensors.
ZeroGrads ==
    /\ Running
    /\ grad' = [k \in Nodes |-> TensorMetaScalar(0)]
    /\ err' = "ok"
    /\ last' = Call("zeroGrads", 0, FALSE, FALSE)
    /\ UNCHANGED <<data_, requiresGrad, bwOp, prev, gradVisited, nbw, order, arrayVars>>

\* Tensor a = Tensor(5, true, "a"); Tensor b = Tensor(1, true, "b");
InitLoop ==
    /\ data_ = <<TensorMetaScalar(5), TensorMetaScalar(1)>>
    /\ grad = <<TensorMetaScalar(0), TensorMetaScalar(0)>>
    /\ requiresGrad = <<TRUE, TRUE>>
    /\ bwOp = <<"none", "none">>
    /\ prev = <<<<>>, <<>>>>
    /\ gradVisited = <<FALSE, FALSE>>
    /\ nbw = 0 /\ err = "ok" /\ last = NoCall /\ order = <<>>
    /\ pc = "while"
    /\ InitArrays

Goto(from, to) == pc = from /\ pc' = to /\ UNCHANGED steps

NextLoop ==
    \/ Goto("while", "forward") /\ nbw < MaxBackward /\ ZeroGrads
    \/ Goto("forward", "e") /\ BinaryOp("mul", 1, 1)
    \/ Goto("e", "f") /\ BinaryOp("mul", 2, 2)
    \/ Goto("f", "backward") /\ BinaryOp("add", 3, 4)
    \/ \E g \in Garbage : Goto("backward", "updateA") /\ Backward(5, g)
    \/ \E v \in LoopValues : Goto("updateA", "updateB") /\ updateData(1, TensorMetaScalar(v))
    \/ \E v \in LoopValues : Goto("updateB", "endF") /\ updateData(2, TensorMetaScalar(v))
    \/ Goto("endF", "endE") /\ Destroy
    \/ Goto("endE", "endD") /\ Destroy
    \/ Goto("endD", "while") /\ Destroy
    \/ Goto("forward", "backwardD") /\ BinaryOp("add", 1, 1)
    \/ \E g \in Garbage : Goto("backwardD", "endD") /\ Backward(3, g)

SpecLoop == InitLoop /\ [][NextLoop]_vars

\* The value of a scalar tensor and of its gradient.
Value(n) == data_[n].rawData[1]

\* C4: a tracked tensor used as both operands of one operation receives both
\* edge contributions: in every pass of the loop, after d = a + a and
\* d.backward() the gradient of a is 2, and after f = a*a + b*b and
\* f.backward() the gradients of a and b are twice their values.
C4_SameTensorBothOperands ==
    AfterBackward =>
        /\ (pc = "endD" /\ nn = 3) => grad[1] = TensorMetaScalar(2)
        /\ (pc = "updateA" /\ nn = 5) =>
               /\ grad[1] = TensorMetaScalar(2 * Value(1))
               /\ grad[2] = TensorMetaScalar(2 * Value(2))

\* A later pass of the loop, on updated values, has computed both gradients of
\* the sum of squares.
C4_Witness ==
    /\ AfterBackward /\ pc = "updateA" /\ nbw = MaxBackward
    /\ Value(1) = 3 /\ Value(2) = 5
    /\ grad[1] = TensorMetaScalar(6) /\ grad[2] = TensorMetaScalar(10)

\* ------------------------------------------------------------------------
\* SpecND: any program over tensors of several shapes, with the setters.
\* ------------------------------------------------------------------------
LeavesND == {TensorMetaScalar(2), TensorMetaData(<<1, 2>>, <<2, 1>>),
             TensorMetaData(<<1, 2, 3, 4>>, <<2, 2>>)}

\* What the program hands to updateData and updaetGrad.
UpdateValues == {TensorMetaScalar(0), TensorMetaData(<<5, 6>>, <<2, 1>>)}

\* A call of a setter is counted; the other calls are not.
Counted(isSetter) ==
    IF isSetter THEN steps < MaxSetters /\ steps' = steps + 1 ELSE UNCHANGED steps

NextND ==
    /\ \/ \E d \in LeavesND : nn < MaxNodesND /\ NewTensor(d, TRUE) /\ Counted(FALSE)
       \/ \E op \in {"add", "sub", "mul"}, i \in Nodes, j \in Nodes :
              nn < MaxNodesND /\ BinaryOp(op, i, j) /\ Counted(FALSE)
       \/ \E r \in Nodes, g \in Garbage : nbw < MaxBackwardND /\ Backward(r, g) /\ Counted(FALSE)
       \/ \E n \in Nodes, v \in UpdateValues : updateData(n, v) /\ Counted(TRUE)
       \/ \E n \in Nodes, v \in UpdateValues : updaetGrad(n, v) /\ Counted(TRUE)
       \/ \E n \in Nodes : zeroGrad(n) /\ Counted(TRUE)
    /\ UNCHANGED pc

SpecND == Init /\ [][NextND]_vars

\* C5: in every reachable state the gradient of every tensor has the shape of
\* the tensor's value.
C5_GradShapeIsValueShape ==
    \A n \in Nodes : grad[n].tensorSize = data_[n].tensorSize

\* C10: updateData with a value of another shape than the tensor's value, and
\* updaetGrad with a value of another shape than the gradient, fail with
\* ShapeMismatch and leave value and gradient as they were.
C10_SettersRejectOtherShapes ==
    [][(last'.op \in {"updateData", "updaetGrad"} /\ last'.flag1)
          => (err' = "ShapeMismatch" /\ data_' = data_ /\ grad' = grad)]_vars

\* ------------------------------------------------------------------------
\* SpecArr: the operations of TensorMeta on two arrays x and y.
\* ------------------------------------------------------------------------
\* The shapes of the arrays the program constructs.
Shapes == {s \in UNION {[1..r -> 1..MaxDim] : r \in 0..MaxRank} : Prod(s) <= MaxNumel}

\* TensorMeta(data, size) with data 1, 2, 3, ... times scale
Ramp(size, scale) == TensorMetaData([i \in 1..Prod(size) |-> i * scale], size)

\* The operators that go through broadcast and return a new array.  operator/
\* and pow work on doubles and are left out.
ElementwiseOps == {"add", "sub", "mul", "gt", "ge", "lt", "le"}

\* What an operation leaves in x: its result, or x itself when it threw.
Keep(old, r) == IF IsErr(r) THEN old ELSE r

\* res = x op y
Elementwise(op) ==
    /\ res' = broadcast(x, y, op)
    /\ last' = Call(op, 0, FALSE, FALSE)
    /\ UNCHANGED <<x, y>>

\* x += y, x -= y
AssignOp(op) ==
    /\ res' = broadcast(x, y, op)
    /\ x' = opAssign(x, y, op)
    /\ last' = Call(IF op = "add" THEN "+=" ELSE "-=", 0, FALSE, FALSE)
    /\ UNCHANGED y

\* x = -x
NegateArr ==
    /\ res' = opNeg(x)
    /\ x' = Keep(x, res')
    /\ last' = Call("negate", 0, FALSE, FALSE)
    /\ UNCHANGED y

\* x = x.squeeze(dim)
Squeeze(dim) ==
    /\ res' = squeeze(x, <<dim>>)
    /\ x' = Keep(x, res')
    /\ last' = Call("squeeze", 0, FALSE, FALSE)
    /\ UNCHANGED y

\* x = x.unsqueeze(dim)
Unsqueeze(dim) ==
    /\ res' = unsqueeze(x, dim)
    /\ x' = Keep(x, res')
    /\ last' = Call("unsqueeze", 0, FALSE, FALSE)
    /\ UNCHANGED y

\* x = x.sum(dims, keepDims)
Sum(dims, keepDims) ==
    /\ res' = sum(x, dims, keepDims, 0)
    /\ x' = Keep(x, res')
    /\ last' = Call("sum", 0, keepDims, FALSE)
    /\ UNCHANGED y

\* x.updateAll(value)
Fill(value) ==
    /\ x' = updateAll(x, value)
    /\ res' = x'
    /\ last' = Call("updateAll", 0, FALSE, FALSE)
    /\ UNCHANGED y

\* x = TensorMeta()
Default(g) ==
    /\ x' = TensorMetaDefault(g)
    /\ res' = x'
    /\ last' = Call("default", 0, FALSE, FALSE)
    /\ UNCHANGED y

\* res = Tensor::squeezeSum(x, y)
SqueezeSum(g) ==
    /\ res' = squeezeSum(x, y, g)
    /\ last' = Call("squeezeSum", 0, FALSE, FALSE)
    /\ UNCHANGED <<x, y>>

InitArr ==
    /\ InitTensors
    /\ \E s \in Shapes : x = Ramp(s, 1)
    /\ \E s \in Shapes : y = Ramp(s, 10)
    /\ res = x
    /\ steps = 0

\* The axes sum is called with: all of them, the first or the last.
SumAxes == {<<>>, <<0>>, <<ndim(x) - 1>>}

NextArr ==
    /\ steps < MaxSteps /\ steps' = steps + 1
    /\ \/ \E op \in ElementwiseOps : Elementwise(op)
       \/ \E op \in {"add", "sub"} : AssignOp(op)
       \/ NegateArr
       \/ \E d \in 0..(MaxRank - 1) : Squeeze(d)
       \/ \E d \in {0, ndim(x)} : Unsqueeze(d)
       \/ \E dims \in SumAxes, k \in BOOLEAN : ndim(x) >= 1 /\ Sum(dims, k)
       \/ \E v \in {0, 2} : Fill(v)
       \/ \E g \in Garbage : Default(g)
       \/ \E g \in Garbage : ndim(x) <= ndim(y) /\ SqueezeSum(g)
    /\ UNCHANGED <<tensorVars, pc>>

SpecArr == InitArr /\ [][NextArr]_vars

\* ------------------------------------------------------------------------
\* Broadcasting and un-broadcasting as the rule states them, by coordinates.
\* ------------------------------------------------------------------------
Min2(a, b) == IF a <= b THEN a ELSE b
Max2(a, b) == IF a >= b THEN a ELSE b

\* The size of shape s at the k-th axis counted from the last (k = 1), and 1
\* where s has no such axis.
FromEnd(s, k) == IF k <= Len(s) THEN s[Len(s) + 1 - k] ELSE 1

\* Some trailing-aligned pair of sizes is unequal with neither equal to 1.
Mismatched(s1, s2) ==
    \E k \in 1..Min2(Len(s1), Len(s2)) :
        FromEnd(s1, k) # FromEnd(s2, k) /\ FromEnd(s1, k) # 1 /\ FromEnd(s2, k) # 1

\* The trailing-aligned size-by-size maximum of two shapes.
MaxShape(s1, s2) ==
    LET r == Max2(Len(s1), Len(s2)) IN
    [i \in 1..r |-> Max2(FromEnd(s1, r + 1 - i), FromEnd(s2, r + 1 - i))]

\* The coordinates (from 0) of the element at flat position p (from 0) of a
\* row-major array of shape s.
Coords(p, s) == [i \in 1..Len(s) |-> (p \div Prod(SubSeq(s, i + 1, Len(s)))) % s[i]]

\* The coordinates, in an operand of shape s, that the coordinates c of the
\* broadcast result read: missing leading axes dropped, axes of size 1 at 0.
Project(c, s) ==
    [i \in 1..Len(s) |-> IF s[i] = 1 THEN 0 ELSE c[i + Len(c) - Len(s)]]

\* The element of array a at coordinates c.
ElementAt(a, c) ==
    a.rawData[1 + CHOOSE q \in 0..(Len(a.rawData) - 1) : Coords(q, a.tensorSize) = c]

RECURSIVE SumOver(_, _)
SumOver(f, S) == IF S = {} THEN 0 ELSE LET e == CHOOSE e \in S : TRUE IN f[e] + SumOver(f, S \ {e})

\* r is x op y computed by the rule.
IsBroadcastOf(r, op, a, b) ==
    LET shape == MaxShape(a.tensorSize, b.tensorSize) IN
    /\ ~IsErr(r)
    /\ r.tensorSize = shape
    /\ Len(r.rawData) = Prod(shape)
    /\ \A p \in 0..(Prod(shape) - 1) :
           r.rawData[p + 1] = Apply(op, ElementAt(a, Project(Coords(p, shape), a.tensorSize)),
                                        ElementAt(b, Project(Coords(p, shape), b.tensorSize)))

\* Shape s broadcasts to shape r.
BroadcastsTo(s, r) == Len(s) >= 1 /\ ~Mismatched(s, r) /\ MaxShape(s, r) = r

\* r is the gradient b reduced to the shape of the operand a: every element
\* is the sum of the elements of b that read it.
IsUnbroadcastOf(r, a, b) ==
    /\ ~IsErr(r)
    /\ r.tensorSize = a.tensorSize
    /\ Len(r.rawData) = Prod(a.tensorSize)
    /\ \A q \in 0..(Prod(a.tensorSize) - 1) :
           r.rawData[q + 1] =
               SumOver([p \in 0..(Len(b.rawData) - 1) |-> b.rawData[p + 1]],
                       {p \in 0..(Len(b.rawData) - 1) :
                            Project(Coords(p, b.tensorSize), a.tensorSize) = Coords(q, a.tensorSize)})

\* C6: for every operand shape that broadcasts to the shape of the incoming
\* gradient, squeezeSum returns an array of the operand's shape whose elements
\* are the sums of the gradient over the stretched and the added axes.
C6_SqueezeSumUnbroadcasts ==
    (last.op = "squeezeSum" /\ BroadcastsTo(x.tensorSize, y.tensorSize))
        => IsUnbroadcastOf(res, x, y)

\* C7: the stored element count, the length of the data buffer and the
\* product of the shape of every array are equal.
Consistent(a) == IsErr(a) \/ (a.numel = Len(a.rawData) /\ Len(a.rawData) = Prod(a.tensorSize))

C7_ElementCountIsProduct == Consistent(x) /\ Consistent(y) /\ Consistent(res)

\* C8 as amended: for two arrays of rank at least 1 whose shapes are
\* broadcast-compatible, every elementwise operation returns the array the
\* broadcasting rule describes.
C8_BroadcastResult ==
    (/\ last.op \in ElementwiseOps
     /\ ndim(x) >= 1 /\ ndim(y) >= 1
     /\ ~Mismatched(x.tensorSize, y.tensorSize))
        => IsBroadcastOf(res, last.op, x, y)

\* C8 as stated: the same for every two arrays whose shapes are
\* broadcast-compatible, whatever their rank.
C8_BroadcastResultAnyRank ==
    (last.op \in ElementwiseOps /\ ~Mismatched(x.tensorSize, y.tensorSize))
        => IsBroadcastOf(res, last.op, x, y)

\* The example of the broadcasting rule: [1,2,3] of shape [3,1] plus [10,20]
\* of shape [1,2].
C8_Witness ==
    /\ last.op = "add"
    /\ x = TensorMetaData(<<1, 2, 3>>, <<3, 1>>)
    /\ y = TensorMetaData(<<10, 20>>, <<1, 2>>)
    /\ res = TensorMetaData(<<11, 21, 12, 22, 13, 23>>, <<3, 2>>)

PositiveShape(a) == \A i \in 1..ndim(a) : a.tensorSize[i] >= 1

\* C9: for shapes of positive sizes an elementwise operation, in place or
\* not, fails with a broadcast error exactly when some trailing-aligned pair
\* of sizes is unequal with neither equal to 1, and a failed operation leaves
\* both operands as they were.
C9_BroadcastErrorIffMismatch ==
    [][(/\ last'.op \in ElementwiseOps \cup {"+=", "-="}
        /\ PositiveShape(x) /\ PositiveShape(y))
          => /\ (IsErr(res') /\ res'.error = "BroadcastError")
                    <=> Mismatched(x.tensorSize, y.tensorSize)
             /\ IsErr(res') => (x' = x /\ y' = y)]_vars

\* An in-place addition of two arrays of rank 2 has failed on a mismatch.
C9_Witness ==
    /\ last.op = "+="
    /\ ndim(x) = 2 /\ ndim(y) = 2 /\ Mismatched(x.tensorSize, y.tensorSize)
    /\ IsErr(res) /\ res.error = "BroadcastError"


\* ------------------------------------------------------------------------
\* Matrix products, permutations and reductions of the arrays x and y
\* ------------------------------------------------------------------------
ShapesMat ==
    {s \in UNION {[1..r -> 1..MaxDimMat] : r \in 0..MaxRankMat} : Prod(s) <= MaxNumelMat}

\* res = TensorMeta::matmul(x, y)
Matmul(g1, g2) ==
    /\ res' = matmul(x, y, g1, g2)
    /\ last' = Call("matmul", 0, FALSE, FALSE)
    /\ UNCHANGED <<x, y>>

InitMat ==
    /\ InitTensors
    /\ \E s \in ShapesMat : x = Ramp(s, 1)
    /\ \E s \in ShapesMat : y = Ramp(s, 10)
    /\ res = x
    /\ steps = 0

NextMat ==
    /\ steps < MaxSteps /\ steps' = steps + 1
    /\ \/ \E g1, g2 \in Garbage : Matmul(g1, g2)
    /\ UNCHANGED <<tensorVars, pc>>

SpecMat == InitMat /\ [][NextMat]_vars

\* ------------------------------------------------------------------------
\* The matrix product as the contract states it.
\* ------------------------------------------------------------------------
\* The axes of a shape before its last two.
BatchOf(s) == SubSeq(s, 1, Len(s) - 2)

\* The size both operands are contracted over: the last axis of the first
\* and the second-to-last (or only) axis of the second.
ContractionOf1(s) == s[Len(s)]
ContractionOf2(s) == IF Len(s) = 1 THEN s[1] ELSE s[Len(s) - 1]

MatmulShape(s1, s2) ==
    IF Len(s1) = 1 /\ Len(s2) = 1 THEN <<1>>
    ELSE IF Len(s1) = 1 THEN BatchOf(s2) \o <<s2[Len(s2)]>>
    ELSE IF Len(s2) = 1 THEN SubSeq(s1, 1, Len(s1) - 1)
    ELSE MaxShape(BatchOf(s1), BatchOf(s2)) \o <<s1[Len(s1) - 1], s2[Len(s2)]>>

MatmulMismatch(s1, s2) ==
    \/ ContractionOf1(s1) # ContractionOf2(s2)
    \/ Mismatched(BatchOf(s1), BatchOf(s2))

\* C11: a matrix product that succeeds has the shape of the contract:
\* (M,K)x(K,N) gives (M,N); (K,)x(K,) one element of shape [1];
\* (K,)x(A,...,K,N) gives (A,...,N); (A,...,M,K)x(K,) gives (A,...,M); with
\* batch axes on both sides the batch prefix of the result is the broadcast
\* of the two batch prefixes, followed by (M,N).
C11_MatmulShape ==
    (last.op = "matmul" /\ ndim(x) >= 1 /\ ndim(y) >= 1 /\ ~IsErr(res))
        => /\ res.tensorSize = MatmulShape(x.tensorSize, y.tensorSize)
           /\ res.numel = Prod(res.tensorSize)
           /\ Len(res.rawData) = res.numel

\* A product of two arrays of rank 3 whose batch axes are 1 and 2.
C11_Witness ==
    /\ last.op = "matmul"
    /\ x.tensorSize = <<1, 2, 2>> /\ y.tensorSize = <<2, 2, 1>>
    /\ ~IsErr(res) /\ res.tensorSize = <<2, 2, 1>>

\* C12: for operands of rank at least 1 the matrix product fails with
\* ShapeMismatch, returning no array, exactly when the contraction sizes
\* differ or the batch prefixes are not broadcastable with each other, and it
\* succeeds for every other pair.
C12_MatmulShapeMismatch ==
    (last.op = "matmul" /\ ndim(x) >= 1 /\ ndim(y) >= 1)
        => IF MatmulMismatch(x.tensorSize, y.tensorSize)
           THEN IsErr(res) /\ res.error = "ShapeMismatch"
           ELSE ~IsErr(res)

\* A product of two arrays of rank 3 with equal contraction sizes has failed
\* on its batch axes.
C12_Witness ==
    /\ last.op = "matmul"
    /\ ndim(x) = 3 /\ ndim(y) = 3
    /\ ContractionOf1(x.tensorSize) = ContractionOf2(y.tensorSize)
    /\ Mismatched(BatchOf(x.tensorSize), BatchOf(y.tensorSize))
    /\ IsErr(res) /\ res.error = "ShapeMismatch"

\* C13: a matrix product with an operand of rank 0 fails with RankError.
C13_MatmulRankZeroRejected ==
    (last.op = "matmul" /\ (ndim(x) = 0 \/ ndim(y) = 0))
        => IsErr(res) /\ res.error = "RankError"


\* ------------------------------------------------------------------------
\* SpecScope: copies and temporaries.  Two programs over the scalar tensors
\* a and b (tensors 1 and 2):
\*     Tensor c = a + b;  (or a * b)     Tensor d = c;
\*     then calls of the setters and of backward() on c and on d;
\* and
\*     Tensor c = -(a + b);  (or (a + b) * a)     c.backward();
\* where the sum a + b is a temporary (tensor 3) that is destroyed at the end
\* of the full expression, before c.backward() runs.
\* ------------------------------------------------------------------------
\* Tensor d = c: class Tensor declares no copy constructor, so the copy is
\* member by member: value, gradient, flag, closure (with the operands it
\* captured), prev and the map of visited marks.
Copy(i) ==
    /\ Running
    /\ data_' = Append(data_, data_[i])
    /\ grad' = Append(grad, grad[i])
    /\ requiresGrad' = Append(requiresGrad, requiresGrad[i])
    /\ bwOp' = Append(bwOp, bwOp[i])
    /\ prev' = Append(prev, prev[i])
    /\ gradVisited' = Append(gradVisited, gradVisited[i])
    /\ err' = "ok"
    /\ last' = Call("copy", i, FALSE, FALSE)
    /\ UNCHANGED <<nbw, order, arrayVars>>

\* ~Tensor() of the temporary k at the end of the full expression that made
\* it: the registry entry is erased and the storage released; prev and the
\* closure of the tensor built from it keep pointing at the storage.
DestroyTemporary(k) ==
    /\ Running
    /\ err' = "ok"
    /\ last' = Call("destroy", k, FALSE, FALSE)
    /\ UNCHANGED <<data_, grad, requiresGrad, bwOp, prev, gradVisited, nbw, order, arrayVars>>

\* r.backward() when the tensors in freed have been destroyed.  The closure
\* of a tensor built from a destroyed one, and the loop over prev, go through
\* the dangling pointer: either the process traps there (trap), or the
\* released storage still holds the tensor and the call runs as if the
\* tensor were alive.
BackwardFreed(r, freed, g, trap) ==
    IF trap /\ requiresGrad[r] /\ bwOp[r] # "none" /\ (Reach(r) \ {r}) \cap freed # {}
    THEN /\ Running
         /\ grad' = [grad EXCEPT ![r] = updateAll(@, 1)]
         /\ gradVisited' = [gradVisited EXCEPT ![r] = TRUE]
         /\ order' = <<r>>
         /\ err' = "Crash"
         /\ nbw' = nbw + 1
         /\ last' = Call("backward", r, FALSE, FALSE)
         /\ UNCHANGED <<data_, requiresGrad, bwOp, prev, arrayVars>>
    ELSE Backward(r, g)

InitScope ==
    /\ data_ = <<>> /\ grad = <<>> /\ requiresGrad = <<>> /\ bwOp = <<>> /\ prev = <<>>
    /\ gradVisited = <<>> /\ nbw = 0 /\ err = "ok" /\ last = NoCall /\ order = <<>>
    /\ pc = "a"
    /\ InitArrays

\* A call through one of the two copies.
HandleCall == pc = "handles" /\ UNCHANGED pc /\ steps < MaxHandleCalls /\ steps' = steps + 1

NextScope ==
    \/ \E v \in LoopValues : Goto("a", "b") /\ NewTensor(TensorMetaScalar(v), TRUE)
    \/ \E v \in LoopValues, rg \in BOOLEAN : Goto("b", "c") /\ NewTensor(TensorMetaScalar(v), rg)
    \/ \E op \in {"add", "mul"} : Goto("c", "copy") /\ BinaryOp(op, 1, 2)
    \/ Goto("copy", "handles") /\ Copy(3)
    \/ \E n \in {3, 4}, v \in LoopValues : HandleCall /\ updateData(n, TensorMetaScalar(v))
    \/ \E n \in {3, 4}, v \in LoopValues : HandleCall /\ updaetGrad(n, TensorMetaScalar(v))
    \/ \E n \in {3, 4} : HandleCall /\ zeroGrad(n)
    \/ \E n \in {3, 4}, g \in Garbage : HandleCall /\ Backward(n, g)
    \/ Goto("c", "temporary") /\ BinaryOp("add", 1, 2)
    \/ Goto("temporary", "endOfExpression") /\ Negate(3)
    \/ Goto("temporary", "endOfExpression") /\ BinaryOp("mul", 3, 1)
    \/ Goto("endOfExpression", "backward") /\ DestroyTemporary(3)
    \/ \E g \in Garbage, trap \in BOOLEAN : Goto("backward", "done") /\ BackwardFreed(4, {3}, g, trap)

SpecScope == InitScope /\ [][NextScope]_vars

\* C14: a copy of a tensor is a second handle of the same node: whatever is
\* called through either of the copies c and d (tensors 3 and 4), both return
\* the same value and the same gradient, and the first backward() through
\* either pushes the gradient into the operand a itself.
C14_CopiesShareNode ==
    pc = "handles" =>
        /\ data_[3] = data_[4]
        /\ grad[3] = grad[4]
        /\ (AfterBackward /\ steps = 1) => grad[1] = TensorMetaScalar(LocalDeriv(last.node, 1))

\* C15: backward() on c, built from the destroyed temporary (tensor 3), ends
\* normally and neither reads nor writes the temporary: its closure is not
\* run, it gets no visited mark and no gradient; the live operand a of
\* c = (a + b) * a still receives a gradient.
C15_DestroyedParentSkipped ==
    pc = "done" =>
        /\ err = "ok"
        /\ \A p \in 1..Len(order) : order[p] # 3
        /\ ~gradVisited[3]
        /\ AllZero(grad[3])
        /\ bwOp[4] = "mul" => ~AllZero(grad[1])


Perms(n) == {p \in [1..n -> 0..(n - 1)] : \A i, j \in 1..n : p[i] = p[j] => i = j}

\* The order that undoes p.
InversePerm(p) == [i \in 1..Len(p) |-> (CHOOSE j \in 1..Len(p) : p[j] = i - 1) - 1]

\* What the program hands to permute for an array of rank n: the orders of
\* the axes, the natural order with one entry replaced by any of -1..n, and
\* the natural order with one entry less and one entry more.
Orders(n) ==
    Perms(n)
    \cup {[arange(0, n) EXCEPT ![i] = v] : i \in 1..n, v \in (-1)..n}
    \cup {arange(0, n - 1), arange(0, n + 1)}

\* res = x.permute(perm).  flag1: perm is a permutation of 0..rank-1.
Permute(perm, g1, g2) ==
    /\ res' = permute(x, perm, g1, g2)
    /\ last' = Call("permute", 0, perm \in Perms(ndim(x)), FALSE)
    /\ UNCHANGED <<x, y>>

\* res = x.permute(p).permute(q), q the inverse of p
PermuteBack(p) ==
    /\ res' = LET t == permute(x, p, 0, 0) IN
              IF IsErr(t) THEN t ELSE permute(t, InversePerm(p), 0, 0)
    /\ last' = Call("permute.permute", 0, FALSE, FALSE)
    /\ UNCHANGED <<x, y>>

\* res = x.transpose(i, j).transpose(i, j)
TransposeTwice(i, j) ==
    /\ res' = LET t == transpose(x, i, j, 0) IN
              IF IsErr(t) THEN t ELSE transpose(t, i, j, 0)
    /\ last' = Call("transpose.transpose", 0, FALSE, FALSE)
    /\ UNCHANGED <<x, y>>

\* res = x.T().T()
TTwice ==
    /\ res' = LET t == T(x) IN IF IsErr(t) THEN t ELSE T(t)
    /\ last' = Call("T.T", 0, FALSE, FALSE)
    /\ UNCHANGED <<x, y>>

\* What the program hands to sum and mean for an array of rank n: every
\* list of distinct axes of the array, in every order; the empty list is the
\* default.
AxisLists(n) ==
    {l \in UNION {[1..k -> 0..(n - 1)] : k \in 0..n} :
        \A i, j \in 1..Len(l) : l[i] = l[j] => i = j}

\* What the model remembers of a reduction: the axes and keepDims.
CallAxes(op, dims, keepDims) == [op |-> op, node |-> dims, flag1 |-> keepDims, flag2 |-> FALSE]

\* res = x.sum(dims, keepDims)
SumOf(dims, keepDims) ==
    /\ res' = sum(x, dims, keepDims, 0)
    /\ last' = CallAxes("sum", dims, keepDims)
    /\ UNCHANGED <<x, y>>

\* res = x.mean(dims, keepDims)
Mean(dims, keepDims) ==
    /\ res' = mean(x, dims, keepDims, 0)
    /\ last' = CallAxes("mean", dims, keepDims)
    /\ UNCHANGED <<x, y>>

\* double(x.sum()): res is the double, or the exception
SumToDouble ==
    /\ res' = LET out == sum(x, <<>>, FALSE, 0) IN IF IsErr(out) THEN out ELSE toDouble(out)
    /\ last' = Call("double", 0, FALSE, FALSE)
    /\ UNCHANGED <<x, y>>

InitUnary ==
    /\ InitTensors
    /\ \E s \in ShapesMat : x = Ramp(s, 1)
    /\ y = x
    /\ res = x
    /\ steps = 0

\* Every call reads x alone and leaves it as it was, so one call per array
\* shows all of them.
NextUnary ==
    /\ steps = 0 /\ steps' = 1
    /\ \/ \E perm \in Orders(ndim(x)), g1, g2 \in Garbage : Permute(perm, g1, g2)
       \/ \E p \in Perms(ndim(x)) : PermuteBack(p)
       \/ \E i, j \in (-ndim(x))..(ndim(x) - 1) : TransposeTwice(i, j)
       \/ TTwice
       \/ \E dims \in AxisLists(ndim(x)), k \in BOOLEAN : SumOf(dims, k)
       \/ \E dims \in AxisLists(ndim(x)), k \in BOOLEAN : Mean(dims, k)
       \/ SumToDouble
    /\ UNCHANGED <<tensorVars, pc>>

SpecUnary == InitUnary /\ [][NextUnary]_vars

\* C17: for every array x of rank at least 2, x.T().T() is x, shape and
\* elements; permute(p) followed by permute of the inverse of p returns x,
\* and transpose(i, j) applied twice returns x.
C17_PermuteRoundTrip ==
    (\/ last.op = "T.T" /\ ndim(x) >= 2
     \/ last.op \in {"permute.permute", "transpose.transpose"})
        => res = x

\* An array of rank 3 whose transpose has another shape and other element
\* positions has been transposed twice.
C17_Witness ==
    /\ last.op = "T.T"
    /\ x.tensorSize = <<1, 2, 3>>
    /\ T(x).tensorSize = <<3, 2, 1>> /\ T(x).rawData # x.rawData
    /\ res = x

\* C18: permute(order) with an order that is not a permutation of 0..rank-1
\* (wrong length, repeated axis, index outside 0..rank-1) fails and returns
\* no array.
C18_PermuteRejectsNonPermutation ==
    (last.op = "permute" /\ ~last.flag1) => IsErr(res)


\* ------------------------------------------------------------------------
\* Reductions as the contract states them, by coordinates.
\* ------------------------------------------------------------------------
\* The axes a reduction called with dims reduces: all of them by default.
ReducedAxes(a, dims) ==
    IF Len(dims) = 0 THEN 0..(ndim(a) - 1) ELSE {dims[i] : i \in 1..Len(dims)}

\* s without the positions (from 0) in axes.
RECURSIVE Without(_, _, _)
Without(s, axes, k) ==
    IF k > Len(s) THEN <<>>
    ELSE (IF (k - 1) \in axes THEN <<>> ELSE <<s[k]>>) \o Without(s, axes, k + 1)

\* The shape of the reduction of shape s over axes: the axes removed, or set
\* to 1 when they are kept.
ReducedShape(s, axes, keepDims) ==
    IF keepDims THEN [i \in 1..Len(s) |-> IF (i - 1) \in axes THEN 1 ELSE s[i]]
    ELSE Without(s, axes, 1)

\* The coordinates, in the reduction, of the element that the source element
\* at coordinates c is added to.
ReducedCoords(c, axes, keepDims) ==
    IF keepDims THEN [i \in 1..Len(c) |-> IF (i - 1) \in axes THEN 0 ELSE c[i]]
    ELSE Without(c, axes, 1)

\* The flat position (from 0) of coordinates c in a row-major array of shape s.
Flat(c, s) == SumSeq([i \in 1..Len(s) |-> c[i] * Prod(SubSeq(s, i + 1, Len(s)))])

\* The element at flat position q of the sum of a over axes: the sum of the
\* elements of a that agree with it on every coordinate that is not reduced.
SumAt(a, axes, keepDims, q) ==
    LET shape == ReducedShape(a.tensorSize, axes, keepDims) IN
    SumOver([p \in 0..(Len(a.rawData) - 1) |-> a.rawData[p + 1]],
            {p \in 0..(Len(a.rawData) - 1) :
                 Flat(ReducedCoords(Coords(p, a.tensorSize), axes, keepDims), shape) = q})

\* r holds, in the given shape, the sums of a over axes.
IsSumOf(r, a, axes, keepDims, shape) ==
    /\ ~IsErr(r)
    /\ r.tensorSize = shape
    /\ Len(r.rawData) = Prod(shape)
    /\ \A q \in 0..(Prod(shape) - 1) : r.rawData[q + 1] = SumAt(a, axes, keepDims, q)

\* C19: mean(x, axes, keepDims) is sum(x, axes, keepDims) with every element
\* divided by the product of the sizes, in x, of the axes that are reduced;
\* with the default empty axis list that is the number of elements of x.
C19_MeanDividesByReducedSizes ==
    (last.op = "mean" /\ ndim(x) >= 1) =>
        LET out == sum(x, last.node, last.flag1, 0)
            axes == ReducedAxes(x, last.node)
            divisor == Prod([i \in 1..ndim(x) |-> IF (i - 1) \in axes THEN x.tensorSize[i] ELSE 1])
        IN  /\ ~IsErr(res)
            /\ res.tensorSize = out.tensorSize
            /\ \A i \in 1..Len(out.rawData) :
                   /\ res.rawData[i].den # 0
                   /\ res.rawData[i].num * divisor = out.rawData[i] * res.rawData[i].den

\* C20 as amended: for an array of rank at least 1 and distinct valid axes,
\* sum returns the sums by coordinates in the shape of x with the reduced
\* axes set to 1 (keepDims) or removed, the shape being [1] when every axis
\* is removed; the default sum of all elements has shape [1] and converts
\* to the double that is the sum of all elements.
C20_SumIsReferenceReduction ==
    /\ (last.op = "sum" /\ ndim(x) >= 1) =>
           LET axes == ReducedAxes(x, last.node)
               shape == ReducedShape(x.tensorSize, axes, last.flag1)
           IN  IsSumOf(res, x, axes, last.flag1, IF shape = <<>> THEN <<1>> ELSE shape)
    /\ (last.op = "double" /\ ndim(x) >= 1) => res = [value |-> SumSeq(x.rawData)]

\* C20 as stated: for every array, the shape of the sum is the shape of x
\* with the reduced axes removed or set to 1, and the default sum has shape
\* [1] and converts to a double.
C20_SumShapeAxesRemoved ==
    /\ last.op = "sum" =>
           LET axes == ReducedAxes(x, last.node) IN
           /\ IsSumOf(res, x, axes, last.flag1, ReducedShape(x.tensorSize, axes, last.flag1))
           /\ (last.node = <<>> /\ ~last.flag1) => res.tensorSize = <<1>>
    /\ last.op = "double" => res = [value |-> SumSeq(x.rawData)]

\* The sum of an array of shape [2,1,3] over its first and last axes, given
\* last axis first, is the single element 21 in shape [1].
C20_Witness ==
    /\ last.op = "sum" /\ last.node = <<2, 0>> /\ ~last.flag1
    /\ x.tensorSize = <<2, 1, 3>>
    /\ res = TensorMetaData(<<21>>, <<1>>)

\* ------------------------------------------------------------------------
\* SpecExtrema: max and min of the array x, whose elements are all positive,
\* all negative or of both signs.
\* ------------------------------------------------------------------------
\* An array of the given shape whose elements alternate in sign.
Zigzag(size) ==
    TensorMetaData([i \in 1..Prod(size) |-> IF i % 2 = 0 THEN i ELSE 0 - i], size)

\* res = x.max(dims, keepDims)
MaxOf(dims, keepDims) ==
    /\ res' = max(x, dims, keepDims, 0)
    /\ last' = CallAxes("max", dims, keepDims)
    /\ UNCHANGED <<x, y>>

\* res = x.min(dims, keepDims)
MinOf(dims, keepDims) ==
    /\ res' = min(x, dims, keepDims, 0)
    /\ last' = CallAxes("min", dims, keepDims)
    /\ UNCHANGED <<x, y>>

InitExtrema ==
    /\ InitTensors
    /\ \E s \in ShapesMat : x \in {Ramp(s, 1), Ramp(s, 0 - 1), Zigzag(s)}
    /\ y = x
    /\ res = x
    /\ steps = 0

NextExtrema ==
    /\ steps = 0 /\ steps' = 1
    /\ \/ \E dims \in AxisLists(ndim(x)), k \in BOOLEAN : MaxOf(dims, k)
       \/ \E dims \in AxisLists(ndim(x)), k \in BOOLEAN : MinOf(dims, k)
    /\ UNCHANGED <<tensorVars, pc>>

SpecExtrema == InitExtrema /\ [][NextExtrema]_vars

\* The source elements of a that are reduced into the element at flat
\* position q of a reduction of a over axes.
ReducedInto(a, axes, keepDims, q) ==
    LET shape == ReducedShape(a.tensorSize, axes, keepDims) IN
    {a.rawData[p + 1] : p \in {p \in 0..(Len(a.rawData) - 1) :
         Flat(ReducedCoords(Coords(p, a.tensorSize), axes, keepDims), shape) = q}}

\* r holds, for each of its elements, the largest (op "max") or the smallest
\* (op "min") of the elements of a reduced into it.
IsExtremumOf(r, a, op, axes, keepDims) ==
    /\ ~IsErr(r)
    /\ Len(r.rawData) = Prod(ReducedShape(a.tensorSize, axes, keepDims))
    /\ \A q \in 0..(Len(r.rawData) - 1) :
           LET S == ReducedInto(a, axes, keepDims, q) IN
           /\ r.rawData[q + 1] \in S
           /\ \A v \in S : IF op = "max" THEN v <= r.rawData[q + 1] ELSE r.rawData[q + 1] <= v

\* C21: for every array, also one whose elements are all negative (max) or
\* all positive (min), each element of max(x, axes, keepDims) is the largest
\* and each element of min(x, axes, keepDims) the smallest of the elements
\* of x reduced into it.
C21_ExtremaAreTrue ==
    last.op \in {"max", "min"} =>
        IsExtremumOf(res, x, last.op, ReducedAxes(x, last.node), last.flag1)

\* ------------------------------------------------------------------------
\* SpecRetain: a graph of scalar tensors is built, the tensor built last is
\* the root; root.backward(), zeroGrad() on every tensor in turn, and
\* root.backward() again.
\* ------------------------------------------------------------------------
InitRetain ==
    /\ data_ = <<>> /\ grad = <<>> /\ requiresGrad = <<>> /\ bwOp = <<>> /\ prev = <<>>
    /\ gradVisited = <<>> /\ nbw = 0 /\ err = "ok" /\ last = NoCall /\ order = <<>>
    /\ pc = "build"
    /\ InitArrays

NextRetain ==
    \/ /\ pc = "build" /\ nn < MaxNodes
       /\ \/ \E l \in Leaves : NewTensor(l[1], l[2])
          \/ \E op \in {"add", "mul"}, i \in Nodes, j \in Nodes : BinaryOp(op, i, j)
          \/ \E i \in Nodes : Negate(i)
       /\ UNCHANGED <<pc, steps>>
    \/ Goto("build", "zero") /\ nn > 0 /\ Backward(nn, 0)
    \/ pc = "zero" /\ steps < nn /\ zeroGrad(steps + 1) /\ steps' = steps + 1 /\ UNCHANGED pc
    \/ pc = "zero" /\ steps = nn /\ pc' = "done" /\ Backward(nn, 0) /\ UNCHANGED steps

SpecRetain == InitRetain /\ [][NextRetain]_vars

\* What r.backward() leaves when no gradient and no visited mark is set at
\* its start: the gradients and the closures invoked, of a first call.
FreshPass(r) ==
    backwardVisit(BwState([k \in Nodes |-> updateAll(grad[k], IF k = r THEN 1 ELSE 0)],
                          [k \in Nodes |-> FALSE], "ok", <<>>),
                  r, 0)

\* C22: root.backward(), zeroGrad() on every tensor and root.backward() again
\* leave every tensor with the gradient it had after the first call, and
\* the second call invokes the closure of every tensor the first one did.
C22_SecondBackwardRepeatsFirst ==
    pc = "done" =>
        /\ err = "ok"
        /\ grad = FreshPass(nn).grad
        /\ order = FreshPass(nn).order

\* ------------------------------------------------------------------------
\* SpecAccum: Tensor a(.., true); Tensor b(.., true); Tensor z = a op b;
\* an optional updaetGrad on a or b; z.backward() called again and again
\* with no zeroGrad() in between.
\* ------------------------------------------------------------------------
\* The values of a and b: two scalars and an array, b of the shape of a.
ValuesAccum == {TensorMetaScalar(1), TensorMetaScalar(3), TensorMetaData(<<1, 2>>, <<2, 1>>)}

InitAccum ==
    /\ data_ = <<>> /\ grad = <<>> /\ requiresGrad = <<>> /\ bwOp = <<>> /\ prev = <<>>
    /\ gradVisited = <<>> /\ nbw = 0 /\ err = "ok" /\ last = NoCall /\ order = <<>>
    /\ pc = "a"
    /\ InitArrays

NextAccum ==
    \/ \E v \in ValuesAccum : Goto("a", "b") /\ NewTensor(v, TRUE)
    \/ \E v \in ValuesAccum :
           Goto("b", "z") /\ v.tensorSize = data_[1].tensorSize /\ NewTensor(v, TRUE)
    \/ \E op \in {"add", "sub", "mul"} : Goto("z", "seed") /\ BinaryOp(op, 1, 2)
    \/ \E k \in {1, 2}, v \in LoopValues :
           /\ pc = "seed" /\ pc' = "calls" /\ steps' = steps + 1
           /\ updaetGrad(k, updateAll(data_[k], v))
    \/ /\ pc \in {"seed", "calls"} /\ pc' = "calls" /\ nbw < MaxBackward
       /\ Backward(3, 0)
       /\ UNCHANGED steps

SpecAccum == InitAccum /\ [][NextAccum]_vars

\* What the closure of n is to add to the gradient of its k-th operand when
\* the gradient coming in is all ones: the row of the operation's table.
Contribution(n, k) ==
    CASE bwOp[n] = "add" -> updateAll(data_[n], 1)
      [] bwOp[n] = "sub" -> updateAll(data_[n], IF k = 1 THEN 1 ELSE 0 - 1)
      [] bwOp[n] = "neg" -> updateAll(data_[n], 0 - 1)
      [] bwOp[n] = "mul" -> data_[prev[n][3 - k]]

\* The array G + c, element by element, for arrays of one shape.
Plus(G, c) == [G EXCEPT !.rawData = [i \in 1..Len(G.rawData) |-> G.rawData[i] + c.rawData[i]]]

\* C23: each z.backward() changes the gradient G of a and of b to G plus the
\* contribution of z's closure and sets the gradient of z to all ones; for
\* z = a + b, after n calls with no gradient stored by the caller, every
\* element of the gradients of a and b is n.
C23_AccumulationAdds ==
    /\ [][last'.op = "backward" =>
            /\ err' = "ok"
            /\ \A k \in {1, 2} : grad'[k] = Plus(grad[k], Contribution(3, k))
            /\ grad'[3] = updateAll(data_[3], 1)]_vars
    /\ []((last.op = "backward" /\ steps = 0 /\ bwOp[3] = "add") =>
            \A k \in {1, 2} : grad[k] = updateAll(data_[k], nbw))

\* z = a + b has been differentiated twice and the gradients of a and b are 2.
C23_Witness ==
    /\ pc = "calls" /\ nbw = 2 /\ steps = 0 /\ bwOp[3] = "add"
    /\ grad[1] = TensorMetaScalar(2) /\ grad[2] = TensorMetaScalar(2)
    /\ grad[3] = TensorMetaScalar(1)

\* ------------------------------------------------------------------------
\* SpecTable: two scalar leaves a and b, each tracked or not; a tensor m made
\* from them by one operation; optionally a tensor r made from m by a second
\* operation; backward() on the tensor made last.
\* ------------------------------------------------------------------------
ValuesTable == {1, 2}

InitTable ==
    /\ data_ = <<>> /\ grad = <<>> /\ requiresGrad = <<>> /\ bwOp = <<>> /\ prev = <<>>
    /\ gradVisited = <<>> /\ nbw = 0 /\ err = "ok" /\ last = NoCall /\ order = <<>>
    /\ pc = "a"
    /\ InitArrays

NextTable ==
    \/ \E v \in ValuesTable, rg \in BOOLEAN : Goto("a", "b") /\ NewTensor(TensorMetaScalar(v), rg)
    \/ \E v \in ValuesTable, rg \in BOOLEAN : Goto("b", "m") /\ NewTensor(TensorMetaScalar(v), rg)
    \/ \E op \in {"add", "sub", "mul"}, i, j \in {1, 2} : Goto("m", "r") /\ BinaryOp(op, i, j)
    \/ Goto("m", "r") /\ Negate(1)
    \/ Goto("m", "r") /\ Exp(1)
    \/ \E op \in {"add", "sub", "mul"}, i, j \in {1, 2, 3} :
           Goto("r", "backward") /\ 3 \in {i, j} /\ BinaryOp(op, i, j)
    \/ Goto("r", "backward") /\ Negate(3)
    \/ Goto("r", "backward") /\ Exp(3)
    \/ pc \in {"r", "backward"} /\ pc' = "done" /\ Backward(nn, 0) /\ UNCHANGED steps

SpecTable == InitTable /\ [][NextTable]_vars

\* The operand slots <<n, k>> of the graph below r whose closure adds into t.
SlotsInto(r, t) ==
    {s \in Reach(r) \X {1, 2} : HasClosure(s[1]) /\ s[2] <= Len(prev[s[1]]) /\ prev[s[1]][s[2]] = t}

\* What the table makes of the gradient of t: for every closure holding t as
\* an operand, the gradient g of the closure's tensor times the table's row.
TableSum(r, t) ==
    SumOver([s \in SlotsInto(r, t) |-> grad[s[1]].rawData[1] * LocalDeriv(s[1], s[2])],
            SlotsInto(r, t))

\* C24: after backward() on r, the gradient of every tracked operand is what
\* the rows of the table add to it (g for add; g and -g for sub; -g for
\* neg; g times the other operand's value for mul; g times exp(x) for exp),
\* the gradient of an operand that is not tracked is still zero, and for
\* c = exp(a + b) the gradients of a and b are the value of c.
C24_BackwardTable ==
    pc = "done" =>
        /\ err = "ok"
        /\ grad[nn] = TensorMetaScalar(1)
        /\ \A t \in Nodes \ {nn} :
               grad[t] = TensorMetaScalar(IF requiresGrad[t] THEN TableSum(nn, t) ELSE 0)
        /\ (nn = 4 /\ bwOp[4] = "exp" /\ bwOp[3] = "add" /\ prev[3] = <<1, 2>>
               /\ requiresGrad[1] /\ requiresGrad[2])
           => (grad[1] = data_[4] /\ grad[2] = data_[4])

\* c = exp(a + b) for a = 2 and b = 1, both tracked: after c.backward() both
\* gradients are the value of c.
C24_Witness ==
    /\ pc = "done" /\ nn = 4 /\ bwOp[4] = "exp" /\ bwOp[3] = "add" /\ prev[3] = <<1, 2>>
    /\ requiresGrad = <<TRUE, TRUE, TRUE, TRUE>>
    /\ Value(1) = 2 /\ Value(2) = 1
    /\ data_[4] = TensorMetaScalar(stdExp(3))
    /\ grad[1] = data_[4] /\ grad[2] = data_[4]

\* ------------------------------------------------------------------------
\* SpecMatGrad: Tensor A(..); Tensor B(..); Tensor C = A.matmul(B);
\* C.backward(); for every pair of shapes of rank 1 to MaxRankMat whose
\* product exists.
\* ------------------------------------------------------------------------
InitMatGrad ==
    /\ data_ = <<>> /\ grad = <<>> /\ requiresGrad = <<>> /\ bwOp = <<>> /\ prev = <<>>
    /\ gradVisited = <<>> /\ nbw = 0 /\ err = "ok" /\ last = NoCall /\ order = <<>>
    /\ pc = "a"
    /\ InitArrays

NextMatGrad ==
    \/ \E s \in ShapesMat, rg \in BOOLEAN :
           Goto("a", "b") /\ Len(s) >= 1 /\ NewTensor(Ramp(s, 1), rg)
    \/ \E s \in ShapesMat, rg \in BOOLEAN :
           /\ Goto("b", "c") /\ Len(s) >= 1
           /\ ~IsErr(matmul(data_[1], Ramp(s, 1), 0, 0))
           /\ NewTensor(Ramp(s, 1), rg)
    \/ Goto("c", "backward") /\ TensorMatmul(1, 2, 0)
    \/ \E g \in Garbage : Goto("backward", "done") /\ Backward(3, g)

SpecMatGrad == InitMatGrad /\ [][NextMatGrad]_vars

\* The out coordinates of a matrix product of shape sO, as a set.
OutCoords(sO) == {Coords(q, sO) : q \in 0..(Prod(sO) - 1)}

\* Element cA of matmul(g, transpose(B)) reduced to the shape sA of A, for g
\* all ones of shape sO: the sum of B[.., k, n] over the out elements
\* [.., m, n] that element [.., m, k] of A is multiplied into.
GradLeftAt(B, sA, sO, cA) ==
    LET S == {cO \in OutCoords(sO) :
                 /\ Project(BatchOf(cO), BatchOf(sA)) = BatchOf(cA)
                 /\ cO[Len(cO) - 1] = cA[Len(cA) - 1]}
    IN  SumOver([cO \in S |-> ElementAt(B, Project(BatchOf(cO), BatchOf(B.tensorSize))
                                              \o <<cA[Len(cA)], cO[Len(cO)]>>)], S)

\* Element cB of matmul(transpose(A), g) reduced to the shape sB of B.
GradRightAt(A, sB, sO, cB) ==
    LET S == {cO \in OutCoords(sO) :
                 /\ Project(BatchOf(cO), BatchOf(sB)) = BatchOf(cB)
                 /\ cO[Len(cO)] = cB[Len(cB)]}
    IN  SumOver([cO \in S |-> ElementAt(A, Project(BatchOf(cO), BatchOf(A.tensorSize))
                                              \o <<cO[Len(cO) - 1], cB[Len(cB) - 1]>>)], S)

\* C25: after C = A.matmul(B) and C.backward(), for operands of every rank
\* from 1 up, no step has failed and the gradient of each tracked operand
\* has the shape of the operand's value; for operands of rank 2 or more it
\* holds matmul(g, transpose(B)), respectively matmul(transpose(A), g),
\* reduced to the operand's shape.
C25_MatmulBackward ==
    pc = "done" =>
        /\ err = "ok"
        /\ \A k \in {1, 2} : grad[k].tensorSize = data_[k].tensorSize
        /\ (ndim(data_[1]) >= 2 /\ ndim(data_[2]) >= 2) =>
               /\ requiresGrad[1] =>
                      \A q \in 0..(data_[1].numel - 1) :
                          grad[1].rawData[q + 1] =
                              GradLeftAt(data_[2], data_[1].tensorSize, data_[3].tensorSize,
                                         Coords(q, data_[1].tensorSize))
               /\ requiresGrad[2] =>
                      \A q \in 0..(data_[2].numel - 1) :
                          grad[2].rawData[q + 1] =
                              GradRightAt(data_[1], data_[2].tensorSize, data_[3].tensorSize,
                                          Coords(q, data_[2].tensorSize))

\* ------------------------------------------------------------------------
\* The tracking flag of the results of every Tensor operation
\* ------------------------------------------------------------------------
MaxExponent == 3    \* largest element handed to exp()

\* A tracked and an untracked 2 x 2 matrix.
LeavesFlags == {<<TensorMetaData(<<1, -1, -1, 1>>, <<2, 2>>), TRUE>>,
                <<TensorMetaData(<<0, 1, 1, 0>>, <<2, 2>>), FALSE>>}

\* Two leaves are made first; the results of operations follow.
Built == nn >= 2 /\ nn < MaxNodesND

NextFlags ==
    /\ \/ \E l \in LeavesFlags : nn < 2 /\ NewTensor(l[1], l[2])
       \/ \E op \in {"add", "sub", "mul"}, i \in Nodes, j \in Nodes :
              Built /\ BinaryOp(op, i, j)
       \/ \E i \in Nodes, j \in Nodes : Built /\ Divide(i, j)
       \/ \E i \in Nodes : Built /\ Negate(i)
       \/ \E i \in Nodes :
              /\ Built
              /\ \A p \in 1..Len(data_[i].rawData) : data_[i].rawData[p] <= MaxExponent
              /\ Exp(i)
       \/ \E i \in Nodes : Built /\ TensorT(i)
       \/ \E i \in Nodes, j \in Nodes : Built /\ TensorMatmul(i, j, 0)
       \/ \E i \in Nodes : Built /\ ReLU(i)
       \/ nn > 0 /\ nbw < MaxBackwardND /\ Backward(nn, 0)
    /\ UNCHANGED <<pc, steps>>

SpecFlags == Init /\ [][NextFlags]_vars

\* The tensors reached from r when the walk goes below tracking tensors only.
RECURSIVE TrackedReachFrom(_, _)
TrackedReachFrom(todo, seen) ==
    IF todo \subseteq seen THEN seen
    ELSE TrackedReachFrom(UNION {{prev[k][i] : i \in 1..Len(prev[k])} :
                                    k \in {t \in todo \ seen : requiresGrad[t]}},
                          seen \cup todo)

TrackedReach(r) == TrackedReachFrom({r}, {})

MaxAssign == 1      \* assignments of a result to an existing tensor

NextAssign ==
    \/ \E l \in Leaves : nn < 2 /\ NewTensor(l[1], l[2]) /\ UNCHANGED <<pc, steps>>
    \/ \E op \in {"add", "mul"}, i \in Nodes, j \in Nodes :
           nn >= 2 /\ nn < MaxNodesND /\ BinaryOp(op, i, j) /\ UNCHANGED <<pc, steps>>
    \/ \E op \in {"add", "mul"}, t \in Nodes, i \in Nodes, j \in Nodes :
           /\ nn >= 2 /\ steps < MaxAssign /\ steps' = steps + 1
           /\ Assign(t, op, i, j)
           /\ UNCHANGED pc
    \/ \E r \in Nodes :
           nn >= 2 /\ nbw < MaxBackwardND /\ Backward(r, 0) /\ UNCHANGED <<pc, steps>>

SpecAssign == Init /\ [][NextAssign]_vars

\* The tensors reached from the parents of n.
Ancestors(n) == UNION {Reach(prev[n][i]) : i \in 1..Len(prev[n])}

\* C27: after any sequence of constructions, operations and assignments of a
\* result to an existing tensor, no tensor is its own ancestor, and every
\* parent of a tensor was created before it.
C27_ParentsAcyclic ==
    /\ \A n \in Nodes : n \notin Ancestors(n)
    /\ \A n \in Nodes : \A i \in 1..Len(prev[n]) : prev[n][i] < n

\* ------------------------------------------------------------------------
\* Lifetime of the nodes behind Tensor handles.  ReLU::forward is written for
\* a Tensor that holds its node in impl, a shared pointer, with prev a vector
\* of weak pointers.  pc holds, for every node, the number of Tensor handles
\* in scope at this point of the program.
\* ------------------------------------------------------------------------
MaxHandles == 2     \* Tensor handles of one node in scope at once

\* The strong references of node n: its handles, and for a result of ReLU the
\* copy of out.impl that its own closure captured ([mask = mask, out_impl =
\* out.impl]).  The closures of the other operations hold none, and prev is
\* weak.
useCount(n) == pc[n] + (IF bwOp[n] = "relu" THEN 1 ELSE 0)

\* A node is destroyed when its last strong reference goes.
alive(n) == useCount(n) > 0

\* The handle of the tensor an action has just made.
NewHandle == pc' = IF Len(data_') > Len(data_) THEN Append(pc, 1) ELSE pc

\* Tensor d = c: the handle is copied, the node is shared.
CopyHandle(n) ==
    /\ Running
    /\ pc[n] > 0 /\ pc[n] < MaxHandles
    /\ pc' = [pc EXCEPT ![n] = @ + 1]
    /\ err' = "ok"
    /\ last' = Call("copyHandle", n, FALSE, FALSE)
    /\ UNCHANGED <<data_, grad, requiresGrad, bwOp, prev, gradVisited, nbw, order, arrayVars>>

\* A handle of node n goes out of scope.
DropHandle(n) ==
    /\ Running
    /\ pc[n] > 0
    /\ pc' = [pc EXCEPT ![n] = @ - 1]
    /\ err' = "ok"
    /\ last' = Call("dropHandle", n, FALSE, FALSE)
    /\ UNCHANGED <<data_, grad, requiresGrad, bwOp, prev, gradVisited, nbw, order, arrayVars>>

InitLife ==
    /\ data_ = <<>> /\ grad = <<>> /\ requiresGrad = <<>> /\ bwOp = <<>> /\ prev = <<>>
    /\ gradVisited = <<>> /\ nbw = 0 /\ err = "ok" /\ last = NoCall /\ order = <<>>
    /\ pc = <<>>
    /\ InitArrays

\* Operations take their operands through handles in scope; backward() is
\* called through a handle on a graph whose nodes are all alive.
NextLife ==
    /\ \/ \E l \in Leaves : nn < MaxNodesND /\ NewTensor(l[1], l[2]) /\ NewHandle
       \/ \E op \in {"add", "mul"}, i \in Nodes, j \in Nodes :
              nn < MaxNodesND /\ pc[i] > 0 /\ pc[j] > 0 /\ BinaryOp(op, i, j) /\ NewHandle
       \/ \E i \in Nodes : nn < MaxNodesND /\ pc[i] > 0 /\ ReLU(i) /\ NewHandle
       \/ \E n \in Nodes : CopyHandle(n)
       \/ \E n \in Nodes : DropHandle(n)
       \/ \E r \in Nodes :
              /\ pc[r] > 0 /\ nbw < MaxBackwardND
              /\ \A k \in Reach(r) : alive(k)
              /\ Backward(r, 0)
              /\ UNCHANGED pc
    /\ UNCHANGED steps

SpecLife == InitLife /\ [][NextLife]_vars

\* C28: a node is alive exactly as long as a Tensor handle of it is in scope,
\* whether or not backward() was called: neither its own closure nor the
\* parent references of a result keep it alive.
C28_NodeDiesWithLastHandle ==
    \A n \in Nodes : alive(n) <=> pc[n] > 0

\* ------------------------------------------------------------------------
\* backward() call by call.  pc holds the position of the program (at) and
\* the stack of the running calls of backward: the tensor of each call and
\* the position i in its body (0: before the test of the visited mark, k >= 1:
\* before the k-th turn of the loop over prev).  res holds what backward(r, g)
\* computes for the call in one step.
\* ------------------------------------------------------------------------
Frame(n, i) == [node |-> n, i |-> i]

Position(at, stack) == [at |-> at, stack |-> stack]

Top == pc.stack[Len(pc.stack)]

\* The call on top of the stack returns.
Return == Position(IF Len(pc.stack) = 1 THEN "returned" ELSE "walk",
                   SubSeq(pc.stack, 1, Len(pc.stack) - 1))

\* r.backward(): if (isRoot) { grad.updateAll(1.0); gradVisited.clear(); }
StartBackward(r) ==
    /\ Running
    /\ pc.at \in {"build", "returned"}
    /\ nbw < MaxBackward
    /\ grad' = [grad EXCEPT ![r] = updateAll(@, 1)]
    /\ gradVisited' = [gradVisited EXCEPT ![r] = FALSE]
    /\ order' = <<>>
    /\ err' = "ok"
    /\ nbw' = nbw + 1
    /\ last' = Call("backward", r,
                    \A k \in Nodes : AllZero(grad[k]),
                    \A k \in Reach(r) \ {r} : ~gradVisited[k])
    /\ res' = backward(r, 0)
    /\ pc' = Position("walk", <<Frame(r, 0)>>)
    /\ UNCHANGED <<data_, requiresGrad, bwOp, prev, x, y, steps>>

\* if (gradVisited[tag]) return; gradVisited[tag] = true;
\* if (requiresGrad && _backward) { _backward(grad, verbose); ... }
\* An exception of the closure ends every running call.
EnterBackward ==
    /\ pc.at = "walk" /\ Top.i = 0
    /\ LET n == Top.node IN
       IF gradVisited[n]
       THEN /\ pc' = Return
            /\ UNCHANGED <<grad, gradVisited, err, order>>
       ELSE IF ~(requiresGrad[n] /\ bwOp[n] # "none")
       THEN /\ gradVisited' = [gradVisited EXCEPT ![n] = TRUE]
            /\ pc' = Return
            /\ UNCHANGED <<grad, err, order>>
       ELSE \E st \in {closure(BwState(grad, [gradVisited EXCEPT ![n] = TRUE], "ok",
                                       Append(order, n)), n, grad[n], 0)} :
                /\ grad' = st.grad
                /\ gradVisited' = st.gradVisited
                /\ err' = st.err
                /\ order' = st.order
                /\ pc' = IF st.err = "ok"
                         THEN Position("walk", [pc.stack EXCEPT ![Len(pc.stack)] = Frame(n, 1)])
                         ELSE Position("returned", <<>>)
    /\ UNCHANGED <<data_, requiresGrad, bwOp, prev, nbw, last, x, y, res, steps>>

\* for (auto& tensor : prev) tensor->backward(false, verbose);
LoopBackward ==
    /\ pc.at = "walk" /\ Top.i >= 1
    /\ LET n == Top.node
           i == Top.i
       IN  pc' = IF i <= Len(prev[n])
                 THEN Position("walk", Append([pc.stack EXCEPT ![Len(pc.stack)] = Frame(n, i + 1)],
                                              Frame(prev[n][i], 0)))
                 ELSE Return
    /\ UNCHANGED <<data_, grad, requiresGrad, bwOp, prev, gradVisited, nbw, err, last, order,
                   x, y, res, steps>>

InitWalk ==
    /\ data_ = <<>> /\ grad = <<>> /\ requiresGrad = <<>> /\ bwOp = <<>> /\ prev = <<>>
    /\ gradVisited = <<>> /\ nbw = 0 /\ err = "ok" /\ last = NoCall /\ order = <<>>
    /\ pc = Position("build", <<>>)
    /\ InitArrays

Building == pc.at = "build" /\ UNCHANGED pc

NextWalk ==
    \/ Building /\ nn = 0 /\ NewTensor(TensorMetaScalar(2), TRUE) /\ UNCHANGED steps
    \/ \E l \in Leaves :
           Building /\ nn >= 1 /\ nn < MaxNodesND /\ NewTensor(l[1], l[2]) /\ UNCHANGED steps
    \/ \E op \in {"add", "mul"}, i \in Nodes, j \in Nodes :
           Building /\ nn < MaxNodesND /\ BinaryOp(op, i, j) /\ UNCHANGED steps
    \/ \E t \in Nodes, i \in Nodes, j \in Nodes :
           /\ Building /\ steps < MaxAssign /\ steps' = steps + 1
           /\ Assign(t, "add", i, j)
    \/ \E r \in Nodes : nn = MaxNodesND /\ (nbw > 0 => r = last.node) /\ StartBackward(r)
    \/ EnterBackward
    \/ LoopBackward

\* Where the running calls can be after the next step of EnterBackward or
\* LoopBackward: the call on top has returned, has entered its body or met
\* the next turn of its loop, has called backward on a parent, or an
\* exception has ended every call.
Onward ==
    LET turned == [pc.stack EXCEPT ![Len(pc.stack)] = Frame(Top.node, Top.i + 1)] IN
    {Return, Position("walk", turned), Position("returned", <<>>)}
        \cup {Position("walk", Append(turned, Frame(k, 0))) : k \in Nodes}

\* A call that has started runs on: the program is single threaded.  Every
\* step of EnterBackward and of LoopBackward is a step of Proceeds, and one of
\* the two is enabled whenever Proceeds is.
Proceeds == pc.at = "walk" /\ pc' \in Onward

SpecWalk == InitWalk /\ [][NextWalk]_vars /\ WF_pc(Proceeds)

\* C29: every call of backward() returns, and when it has returned normally
\* every tensor reached from the root through tracking tensors carries the
\* visited mark and, if it tracks and has a closure, had its closure invoked
\* in this call.
C29_BackwardReturnsAndVisitsAll ==
    /\ (pc.at = "walk") ~> (pc.at = "returned")
    /\ [](pc.at = "returned" /\ err = "ok" =>
              \A k \in TrackedReach(last.node) :
                  /\ gradVisited[k]
                  /\ HasClosure(k) => \E p \in 1..Len(order) : order[p] = k)

\* ------------------------------------------------------------------------
\* The registry Tensor::tensors.  In this specification pc holds the static
\* members and what the program has in scope: tag is the tag of every tensor
\* made so far, live tells which of them have not been destroyed, tensors is
\* the map from tag to Tensor*, tensorCounter the counter of generated tags.
\* A tag is the pair of a text and a number: "tensor_" + std::to_string(k) is
\* ("tensor_", k), a tag written by the program has the number 0 unless the
\* program writes a text of that form.
\* ------------------------------------------------------------------------
Tag(name, no) == [name |-> name, no |-> no]

EmptyTag == Tag("", 0)

\* The tensorTag arguments of the program: none, a name used more than once
\* (as by an expression rebuilt in a loop), and the text "tensor_1".
TensorTags == {EmptyTag, Tag("(a+b)", 0), Tag("tensor_", 1)}

\* tensors[key] = ptr
Put(map, key, ptr) == {e \in map : e.key # key} \cup {[key |-> key, ptr |-> ptr]}

\* tensors.erase(key)
Erase(map, key) == {e \in map : e.key # key}

\* The constructor Tensor(data, requiresGrad, tensorTag): the tag is generated
\* when tensorTag is empty, and tensors[tag] = this.
TensorCtor(d, rg, tensorTag) ==
    /\ NewTensor(d, rg)
    /\ LET newCounter == IF tensorTag = EmptyTag THEN pc.tensorCounter + 1 ELSE pc.tensorCounter
           newTag == IF tensorTag = EmptyTag THEN Tag("tensor_", newCounter) ELSE tensorTag
       IN  pc' = [tag |-> Append(pc.tag, newTag),
                  live |-> Append(pc.live, TRUE),
                  tensors |-> IF newTag # EmptyTag THEN Put(pc.tensors, newTag, nn + 1)
                              ELSE pc.tensors,
                  tensorCounter |-> newCounter]

\* Tensor d = c: the implicit copy constructor copies the members, the tag
\* among them, and registers nothing.
CopyCtor(i) ==
    /\ pc.live[i]
    /\ Copy(i)
    /\ pc' = [pc EXCEPT !.tag = Append(@, pc.tag[i]), !.live = Append(@, TRUE)]

\* void updateTag(std::string newTag) { this->tag = newTag; }
updateTag(i, newTag) ==
    /\ Running
    /\ pc.live[i]
    /\ pc' = [pc EXCEPT !.tag[i] = newTag]
    /\ err' = "ok"
    /\ last' = Call("updateTag", i, FALSE, FALSE)
    /\ UNCHANGED <<data_, grad, requiresGrad, bwOp, prev, gradVisited, nbw, order, arrayVars>>

\* ~Tensor(): tensors.erase(tag)
Destructor(i) ==
    /\ pc.live[i]
    /\ DestroyTemporary(i)
    /\ pc' = [pc EXCEPT !.live[i] = FALSE, !.tensors = Erase(@, pc.tag[i])]

InitTags ==
    /\ data_ = <<>> /\ grad = <<>> /\ requiresGrad = <<>> /\ bwOp = <<>> /\ prev = <<>>
    /\ gradVisited = <<>> /\ nbw = 0 /\ err = "ok" /\ last = NoCall /\ order = <<>>
    /\ pc = [tag |-> <<>>, live |-> <<>>, tensors |-> {}, tensorCounter |-> 0]
    /\ InitArrays

NextTags ==
    \/ \E t \in TensorTags :
           nn < MaxNodes /\ TensorCtor(TensorMetaScalar(2), TRUE, t) /\ UNCHANGED steps
    \/ \E i \in Nodes : nn < MaxNodes /\ CopyCtor(i) /\ UNCHANGED steps
    \/ \E i \in Nodes, t \in TensorTags \ {EmptyTag} :
           steps < MaxSetters /\ steps' = steps + 1 /\ updateTag(i, t)
    \/ \E i \in Nodes : Destructor(i) /\ UNCHANGED steps

SpecTags == InitTags /\ [][NextTags]_vars

\* C30: after any sequence of construction, copy, updateTag and destruction,
\* every entry of Tensor::tensors points to a live tensor whose tag is the
\* entry's key, and the tag of every live tensor with a non-empty tag is a
\* key of the map.
C30_RegistryMatchesLiveTensors ==
    /\ \A e \in pc.tensors : pc.live[e.ptr] /\ pc.tag[e.ptr] = e.key
    /\ \A n \in Nodes :
           (pc.live[n] /\ pc.tag[n] # EmptyTag) => \E e \in pc.tensors : e.key = pc.tag[n]

====
